---------------------------- MODULE Spec2Model ----------------------------
(***************************************************************************)
(* A model of the XSH expression engine (xsh-js): the normalizer, the      *)
(* command splitter, the converter, the command operators, the variable    *)
(* store and the command dispatcher execFn.                                *)
(*                                                                         *)
(* Texts.  A JavaScript string is modelled as a sequence of lexemes.  Each *)
(* operator character, bracket, digit, dot and blank is one lexeme; a word *)
(* of letters is one lexeme (no rule of the engine splits inside a word).  *)
(* A lexeme is a record [c, h]: c is the spelling, and h is empty except   *)
(* for a hash name "_" + md5(s), whose h holds the hashed text s, so that  *)
(* equal texts get equal names and different texts different names.        *)
(*                                                                         *)
(* Values.  A JavaScript value is a record tagged by t: "undef", "null",   *)
(* "bool", "num", "str" (v is a text), "arr" (v is a sequence of values).  *)
(***************************************************************************)
EXTENDS Integers, Sequences, FiniteSets, TLC

VARIABLES
    VARS,    \* the global variable store of the engine
    pc,      \* "idle", or "done" while the outcome of a call is at hand
    call,    \* the call made last: its operation and its inputs
    result,  \* the outcome of that call
    callScope,   \* async mode: the scope object of the call that is running
    frames,      \* async mode: the calls of async functions, each with its position
    promises,    \* async mode: the promises, each pending or settled
    microtasks,  \* async mode: the queue of promise jobs, first in first out
    GLOBAL_RULES \* the rule registry: the rules of each category, as iterated

(***************************************************************************)
(* Lexemes and texts                                                       *)
(***************************************************************************)
Ch(s) == [c |-> s, h |-> <<>>]

Str(ss) == [i \in 1..Len(ss) |-> Ch(ss[i])]

EmptyText == <<>>

\* md5 of a text, prefixed with "_" (getVariableHash with isSystem = true).
getVariableHash(text) == [c |-> "_md5", h |-> text]

IsSpace(e) == e.c = " "

StartsWith(t, p) == Len(t) >= Len(p) /\ SubSeq(t, 1, Len(p)) = p

EndsWith(t, p) == Len(t) >= Len(p) /\ SubSeq(t, Len(t) - Len(p) + 1, Len(t)) = p

MatchAt(t, i, key) ==
    /\ i >= 1
    /\ i + Len(key) - 1 <= Len(t)
    /\ SubSeq(t, i, i + Len(key) - 1) = key

\* The least element of a non-empty set of numbers
Min(S) == CHOOSE i \in S : \A j \in S : i <= j

\* String.prototype.indexOf, 1-based; 0 when the key does not occur.
IndexOf(t, key) ==
    LET hits == {i \in 1..Len(t) : MatchAt(t, i, key)}
    IN  IF hits = {} THEN 0 ELSE Min(hits)

\* String.prototype.includes
Includes(t, key) == IndexOf(t, key) # 0

RECURSIVE Split(_, _)
\* String.prototype.split with a non-empty string separator.
Split(t, key) ==
    LET i == IndexOf(t, key)
    IN  IF i = 0
        THEN <<t>>
        ELSE <<SubSeq(t, 1, i - 1)>> \o Split(SubSeq(t, i + Len(key), Len(t)), key)

\* The index of the first lexeme at or after i that is not a blank (Len+1 if none).
SkipSpaces(t, i) ==
    IF i > Len(t) THEN i
    ELSE Min({k \in i..(Len(t) + 1) : k > Len(t) \/ ~IsSpace(t[k])})

\* String.prototype.trim
RECURSIVE TrimEnd(_)
TrimEnd(t) ==
    IF Len(t) > 0 /\ IsSpace(t[Len(t)]) THEN TrimEnd(SubSeq(t, 1, Len(t) - 1)) ELSE t

TrimStart(t) == SubSeq(t, SkipSpaces(t, 1), Len(t))

Trim(t) == TrimEnd(TrimStart(t))


(***************************************************************************)
(* Values                                                                  *)
(***************************************************************************)
Undef == [t |-> "undef"]

Null == [t |-> "null"]

Bool(b) == [t |-> "bool", v |-> b]

Num(n) == [t |-> "num", v |-> n]

\* A float literal is kept as its spelling.
Float(text) == [t |-> "float", v |-> text]

StrV(text) == [t |-> "str", v |-> text]

Arr(items) == [t |-> "arr", v |-> items]

\* x == null
IsNullish(x) == x.t \in {"undef", "null"}

\* typeof value === 'string'
isString(x) == x.t = "str"

\* Array.isArray
isArray(x) == x.t = "arr"

\* ToBoolean
Truthy(x) ==
    CASE x.t = "undef" -> FALSE
      [] x.t = "null"  -> FALSE
      [] x.t = "bool"  -> x.v
      [] x.t = "num"   -> x.v # 0
      [] x.t = "str"   -> x.v # EmptyText
      [] OTHER         -> TRUE

\* a ?? b
Coalesce(a, b) == IF IsNullish(a) THEN b ELSE a

(***************************************************************************)
(* Scopes and the global variable store: maps from key texts to values.    *)
(***************************************************************************)
NoVars == [k \in {} |-> Undef]

Get(s, k) == IF k \in DOMAIN s THEN s[k] ELSE Undef

Put(s, k, x) == [y \in DOMAIN s \cup {k} |-> IF y = k THEN x ELSE s[y]]

Key(word) == <<Ch(word)>>

CONTEXT == Key("context")

(***************************************************************************)
(* Rule registry                                                           *)
(***************************************************************************)
\* a.order ?? 0; an absent order is the empty tuple
OrderOf(rule) == IF rule.order = <<>> THEN 0 ELSE rule.order[1]

\* Array.prototype.sort with (a, b) => (a.order ?? 0) - (b.order ?? 0): stable.
RECURSIVE SortByOrder(_)
SortByOrder(rules) ==
    IF Len(rules) <= 1
    THEN rules
    ELSE LET front == SortByOrder(SubSeq(rules, 1, Len(rules) - 1))
             last  == rules[Len(rules)]
             keep  == {i \in 1..Len(front) : OrderOf(front[i]) <= OrderOf(last)}
             n     == IF keep = {} THEN 0 ELSE CHOOSE i \in keep : \A j \in keep : j <= i
         IN  SubSeq(front, 1, n) \o <<last>> \o SubSeq(front, n + 1, Len(front))

\* The new rules put in front of the list
registerInFront(list, rules) == SortByOrder(rules \o list)

\* list.push(...Object.values(rules)); list.sort(...)
registerRules(list, rules) == SortByOrder(list \o rules)

\* plugin().rules.parse, in the order of the object literal
PluginParseRules ==
    << [name |-> "brackets",    key |-> <<>>, order |-> <<-1000>>],
       [name |-> "trimBorders", key |-> <<>>, order |-> <<-900>>],
       [name |-> "trimSpaces",  key |-> <<>>, order |-> <<-800>>],
       [name |-> "trimMath",    key |-> <<>>, order |-> <<-700>>],
       [name |-> "trimBraces",  key |-> <<>>, order |-> <<-600>>],
       [name |-> "minus",       key |-> <<>>, order |-> <<-500>>],
       [name |-> "braces",      key |-> <<>>, order |-> <<-400>>] >>

\* plugin().rules.command
PluginCommandRules ==
    << [name |-> "end",     key |-> Str(<<";">>),      order |-> <<-1000>>],
       [name |-> "fail",    key |-> Str(<<"|", "|">>), order |-> <<-900>>],
       [name |-> "success", key |-> Str(<<"&", "&">>), order |-> <<-800>>],
       [name |-> "nullish", key |-> Str(<<"?", "?">>), order |-> <<-700>>],
       [name |-> "context", key |-> Str(<<"|">>),      order |-> <<-600>>],
       [name |-> "out",     key |-> Str(<<">", ">">>), order |-> <<-500>>],
       [name |-> "param",   key |-> Str(<<" ">>),      order |-> <<-400>>] >>

\* plugin().rules.math: no rule has an order
PluginMathRules ==
    << [name |-> "ge",  key |-> Str(<<">", "=">>),      order |-> <<>>],
       [name |-> "le",  key |-> Str(<<"<", "=">>),      order |-> <<>>],
       [name |-> "eqv", key |-> Str(<<"=", "=", "=">>), order |-> <<>>],
       [name |-> "neq", key |-> Str(<<"!", "=", "=">>), order |-> <<>>],
       [name |-> "eq",  key |-> Str(<<"=", "=">>),      order |-> <<>>],
       [name |-> "ne",  key |-> Str(<<"!", "=">>),      order |-> <<>>],
       [name |-> "gt",  key |-> Str(<<">">>),           order |-> <<>>],
       [name |-> "lt",  key |-> Str(<<"<">>),           order |-> <<>>],
       [name |-> "add", key |-> Str(<<"+">>),           order |-> <<>>],
       [name |-> "sub", key |-> Str(<<"-">>),           order |-> <<>>],
       [name |-> "mul", key |-> Str(<<"*">>),           order |-> <<>>],
       [name |-> "div", key |-> Str(<<"/">>),           order |-> <<>>],
       [name |-> "mod", key |-> Str(<<"%">>),           order |-> <<>>] >>

\* plugin().rules.convert
PluginConvertRules ==
    << [name |-> "isString",      key |-> <<>>, order |-> <<-9999>>],
       [name |-> "isNull",        key |-> <<>>, order |-> <<-9800>>],
       [name |-> "isUndefined",   key |-> <<>>, order |-> <<-9700>>],
       [name |-> "isEmptyString", key |-> <<>>, order |-> <<-9600>>],
       [name |-> "isTrue",        key |-> <<>>, order |-> <<-9500>>],
       [name |-> "isFalse",       key |-> <<>>, order |-> <<-9400>>],
       [name |-> "isNumber",      key |-> <<>>, order |-> <<-9300>>],
       [name |-> "isFloat",       key |-> <<>>, order |-> <<-9300>>],
       [name |-> "isKeys",        key |-> <<>>, order |-> <<-1000>>],
       [name |-> "isMath",        key |-> <<>>, order |-> <<-900>>],
       [name |-> "isVariable",    key |-> <<>>, order |-> <<-800>>],
       [name |-> "isCommand",     key |-> <<>>, order |-> <<-700>>] >>

\* plugin().rules.template
PluginTemplateRules ==
    << [name |-> "systemConst",   key |-> <<>>, order |-> <<9999>>],
       [name |-> "inlineCommand", key |-> <<>>, order |-> <<>>],
       [name |-> "varConst",      key |-> <<>>, order |-> <<>>],
       [name |-> "runConst",      key |-> <<>>, order |-> <<>>] >>

\* extJs().rules.template
ExtJsTemplateRules ==
    << [name |-> "template", key |-> <<>>, order |-> <<-9999>>],
       [name |-> "command",  key |-> <<>>, order |-> <<>>] >>

\* getRulesByCategory after setConfig({plugins: [plugin(), extJs]})
PARSE_COMMAND == registerRules(<<>>, PluginParseRules)

COMMANDS == registerRules(<<>>, PluginCommandRules)

MATH == registerRules(<<>>, PluginMathRules)

CONVERT == registerRules(<<>>, PluginConvertRules)

TEMPLATE == registerRules(registerRules(<<>>, PluginTemplateRules), ExtJsTemplateRules)

\* globalObject[GLOBAL_RULES_KEY] after setConfig({plugins: [plugin(), extJs]})
LoadedRules ==
    [category \in {"parse", "command", "math", "convert", "template"} |->
        CASE category = "parse"    -> PARSE_COMMAND
          [] category = "command"  -> COMMANDS
          [] category = "math"     -> MATH
          [] category = "convert"  -> CONVERT
          [] category = "template" -> TEMPLATE]

\* globalObject[GLOBAL_RULES_KEY][category] ??= []
getRulesByCategory(registry, category) ==
    IF category \in DOMAIN registry THEN registry[category] ELSE <<>>

\* The registry after registerRules(category, rules)
Registered(registry, category, rules) ==
    [c \in DOMAIN registry \cup {category} |->
        IF c = category
        THEN registerRules(getRulesByCategory(registry, category), rules)
        ELSE registry[c]]

(***************************************************************************)
(* Normalizer: the rules of category "parse"                               *)
(***************************************************************************)
Digits == {"0", "1", "2", "3", "4", "5", "6", "7", "8", "9"}

IsDigit(e) == e.c \in Digits

DigitVal(e) ==
    CASE e.c = "0" -> 0 [] e.c = "1" -> 1 [] e.c = "2" -> 2 [] e.c = "3" -> 3
      [] e.c = "4" -> 4 [] e.c = "5" -> 5 [] e.c = "6" -> 6 [] e.c = "7" -> 7
      [] e.c = "8" -> 8 [] e.c = "9" -> 9

\* The index after the run of digits that starts at i.
SkipDigits(t, i) ==
    IF i > Len(t) THEN i
    ELSE Min({k \in i..(Len(t) + 1) : k > Len(t) \/ ~IsDigit(t[k])})

\* TypeChecks.NUMBER: /^-?\d+$/
MatchesNumber(t) ==
    LET from == IF Len(t) > 0 /\ t[1].c = "-" THEN 2 ELSE 1
    IN  from <= Len(t) /\ SkipDigits(t, from) = Len(t) + 1

\* TypeChecks.FLOAT: /^-?\d+\.\d+$/
MatchesFloat(t) ==
    LET from == IF Len(t) > 0 /\ t[1].c = "-" THEN 2 ELSE 1
        dot  == SkipDigits(t, from)
    IN  /\ dot > from
        /\ dot < Len(t)
        /\ t[dot].c = "."
        /\ SkipDigits(t, dot + 1) = Len(t) + 1

RECURSIVE DigitsValue(_, _)
DigitsValue(t, acc) ==
    IF t = <<>> THEN acc ELSE DigitsValue(Tail(t), 10 * acc + DigitVal(t[1]))

\* parseInt of a text that matches TypeChecks.NUMBER
parseInt(t) ==
    IF t[1].c = "-" THEN 0 - DigitsValue(Tail(t), 0) ELSE DigitsValue(t, 0)

\* The text without its trailing "0" lexemes
RECURSIVE DropZeros(_)
DropZeros(t) ==
    IF t # <<>> /\ t[Len(t)].c = "0" THEN DropZeros(SubSeq(t, 1, Len(t) - 1)) ELSE t

\* parseFloat of a text that matches TypeChecks.FLOAT: 2.0 is the number 2,
\* and 2.50 the number 2.5
parseFloat(t) ==
    LET from == IF t[1].c = "-" THEN 2 ELSE 1
        dot  == SkipDigits(t, from)
        frac == DropZeros(SubSeq(t, dot + 1, Len(t)))
    IN  IF frac = <<>> THEN Num(parseInt(SubSeq(t, 1, dot - 1)))
        ELSE Float(SubSeq(t, 1, dot) \o frac)

\* stripSlashes: a backslash is dropped and the lexeme after it kept.
RECURSIVE stripSlashes(_)
stripSlashes(t) ==
    IF t = <<>> THEN <<>>
    ELSE IF t[1].c = "\\" /\ Len(t) > 1
         THEN <<t[2]>> \o stripSlashes(SubSeq(t, 3, Len(t)))
         ELSE <<t[1]>> \o stripSlashes(Tail(t))

\* getVariableName: "$" + name
getVariableName(name) == <<Ch("$"), name>>

\* getRunnableVariableName: "$$" + name
getRunnableVariableName(name) == <<Ch("$"), Ch("$"), name>>

\* The quote characters ` ' and "; the backtick lexeme is spelled "backtick".
Quotes == {"backtick", "'", "\""}

Escaped(t, i) == i > 1 /\ t[i - 1].c = "\\"

\* The closing quote of PrepareArguments.BRACKETS for the quote at i (0 if none):
\* the first later lexeme with the same spelling that no backslash precedes.
ClosingQuote(t, i) ==
    LET hits == {j \in (i + 1)..Len(t) : t[j].c = t[i].c /\ ~Escaped(t, j)}
    IN  IF hits = {} THEN 0 ELSE CHOOSE j \in hits : \A k \in hits : j <= k

\* parse.brackets, from lexeme i on: each quoted literal becomes "$" + hash, the
\* scope keeps its body; the text between two literals stays as it is.
RECURSIVE Brackets(_, _, _)
Brackets(t, i, scope) ==
    LET opens == {k \in i..Len(t) :
                    t[k].c \in Quotes /\ ~Escaped(t, k) /\ ClosingQuote(t, k) # 0}
        Quoted(k, value) ==
            LET name == getVariableHash(value)
                rest == Brackets(t, ClosingQuote(t, k) + 1, Put(scope, <<name>>, StrV(value)))
            IN  [text  |-> SubSeq(t, i, k - 1) \o getVariableName(name) \o rest.text,
                 scope |-> rest.scope]
        From(k) == Quoted(k, stripSlashes(SubSeq(t, k + 1, ClosingQuote(t, k) - 1)))
    IN  IF opens = {} THEN [text |-> SubSeq(t, i, Len(t)), scope |-> scope]
        ELSE From(Min(opens))

\* parse.trimBorders: Trim.BORDERS, /^\s+/ and /\s+$/
TrimBorders(t) == Trim(t)

\* parse.trimSpaces: Trim.SPACES, /\s\s+/g becomes one blank
RECURSIVE TrimSpaces(_)
TrimSpaces(t) ==
    LET runs == {k \in 1..(Len(t) - 1) : IsSpace(t[k]) /\ IsSpace(t[k + 1])}
        From(k) == SubSeq(t, 1, k - 1) \o <<Ch(" ")>>
                      \o TrimSpaces(SubSeq(t, SkipSpaces(t, k), Len(t)))
    IN  IF runs = {} THEN t ELSE From(Min(runs))

\* The alternation of Trim.MATH, in its order
TrimMathOps ==
    << Str(<<",">>), Str(<<":">>), Str(<<"|", "|">>), Str(<<"&", "&">>),
       Str(<<"?", "?">>), Str(<<"=", "=", "=">>), Str(<<"!", "=", "=">>),
       Str(<<"=", "=">>), Str(<<"!", "=">>), Str(<<">", "=">>), Str(<<"<", "=">>),
       Str(<<">">>), Str(<<"<">>), Str(<<"+">>), Str(<<"*">>), Str(<<"/">>),
       Str(<<"|">>), Str(<<"%">>) >>

\* The first alternative of ops that matches at i (0 if none)
FirstMatch(ops, t, i) ==
    LET hits == {n \in 1..Len(ops) : MatchAt(t, i, ops[n])}
    IN  IF hits = {} THEN 0 ELSE CHOOSE n \in hits : \A m \in hits : n <= m

\* parse.trimMath, from lexeme i on: Trim.MATH, /\s*(op)\s*/g becomes op
RECURSIVE TrimMath(_, _)
TrimMath(t, i) ==
    LET hits == {k \in i..Len(t) : FirstMatch(TrimMathOps, t, SkipSpaces(t, k)) # 0}
        Op(k, j, op) == SubSeq(t, i, k - 1) \o op \o TrimMath(t, SkipSpaces(t, j + Len(op)))
        At(k, j) == Op(k, j, TrimMathOps[FirstMatch(TrimMathOps, t, j)])
        From(k) == At(k, SkipSpaces(t, k))
    IN  IF hits = {} THEN SubSeq(t, i, Len(t)) ELSE From(Min(hits))

OpenBraces == {"[", "(", "{"}

CloseBraces == {")", "}", "]"}

\* Trim.BRACES[0]: /([[({])\s*/g becomes the brace
RECURSIVE TrimAfterOpen(_, _)
TrimAfterOpen(t, i) ==
    LET hits == {k \in i..(Len(t) - 1) : t[k].c \in OpenBraces /\ IsSpace(t[k + 1])}
        From(k) == SubSeq(t, i, k) \o TrimAfterOpen(t, SkipSpaces(t, k + 1))
    IN  IF hits = {} THEN SubSeq(t, i, Len(t)) ELSE From(Min(hits))

\* Trim.BRACES[1]: /\s*([)}\]])/g becomes the brace
RECURSIVE TrimBeforeClose(_, _)
TrimBeforeClose(t, i) ==
    LET Closes(j) == j <= Len(t) /\ t[j].c \in CloseBraces
        hits == {k \in i..Len(t) : IsSpace(t[k]) /\ Closes(SkipSpaces(t, k))}
        From(k) == SubSeq(t, i, k - 1) \o TrimBeforeClose(t, SkipSpaces(t, k))
    IN  IF hits = {} THEN SubSeq(t, i, Len(t)) ELSE From(Min(hits))

\* parse.trimBraces
TrimBraces(t) == TrimBeforeClose(TrimAfterOpen(t, 1), 1)

\* The lookbehind and the lookahead of PrepareArguments.MINUS
MinusBefore == {" ", "[", "(", "{", "*", "/", "+", ",", "&", "|", ">", "<", "=", "%", "?", ":", ";"}

MinusAfter == {" ", "]", ")", "}", "*", "/", "+", ",", "&", "|", "!", ">", "<", "=", "%", "?", ";"}

\* The index after the number -\d+(\.\d+)? that starts at i, 0 if none matches there
MinusEnd(t, i) ==
    LET d == SkipDigits(t, i + 1)
        f == IF d < Len(t) /\ t[d].c = "." /\ IsDigit(t[d + 1]) THEN SkipDigits(t, d + 1) ELSE d
        ok(k) == k > Len(t) \/ t[k].c \in MinusAfter
    IN  IF ~(t[i].c = "-" /\ d > i + 1 /\ (i = 1 \/ t[i - 1].c \in MinusBefore)) THEN 0
        ELSE IF ok(f) THEN f
        ELSE IF ok(d) THEN d
        ELSE 0

\* parse.minus, from lexeme i on: each negative number becomes "$" + hash, the
\* scope keeps the number.
RECURSIVE Minus(_, _, _)
Minus(t, i, scope) ==
    LET hits == {k \in i..Len(t) : MinusEnd(t, k) # 0}
        Number(k, j, value) ==
            LET name == getVariableHash(value)
                num  == IF MatchesNumber(value) THEN Num(parseInt(value))
                        ELSE parseFloat(value)
                rest == Minus(t, j, Put(scope, <<name>>, num))
            IN  [text  |-> SubSeq(t, i, k - 1) \o getVariableName(name) \o rest.text,
                 scope |-> rest.scope]
        At(k, j) == Number(k, j, SubSeq(t, k, j - 1))
        From(k) == At(k, MinusEnd(t, k))
    IN  IF hits = {} THEN [text |-> SubSeq(t, i, Len(t)), scope |-> scope]
        ELSE From(Min(hits))

\* The end of the group of PrepareArguments.BRACES that opens at i (0 if none):
\* the next brace of this kind after i, when it is the closing one.
GroupEnd(t, i, open, close) ==
    LET hits == {j \in (i + 1)..Len(t) : t[j].c \in {open, close}}
        j    == IF hits = {} THEN 0 ELSE CHOOSE k \in hits : \A m \in hits : k <= m
    IN  IF t[i].c = open /\ j # 0 /\ t[j].c = close THEN j ELSE 0

\* One expression of PrepareArguments.BRACES, replaced globally in one pass from
\* lexeme i on: each group without an inner group of its kind becomes "$$" + hash.
RECURSIVE BracesPass(_, _, _, _, _)
BracesPass(t, i, scope, open, close) ==
    LET hits == {k \in i..Len(t) : GroupEnd(t, k, open, close) # 0}
        Group(k, j, value) ==
            LET variable == getVariableHash(value)
                rest     == BracesPass(t, j + 1, Put(scope, <<variable>>, StrV(value)),
                                       open, close)
            IN  [text  |-> SubSeq(t, i, k - 1) \o getRunnableVariableName(variable)
                              \o rest.text,
                 scope |-> rest.scope]
        At(k, j) == Group(k, j, SubSeq(t, k, j))
        From(k) == At(k, GroupEnd(t, k, open, close))
    IN  IF hits = {} THEN [text |-> SubSeq(t, i, Len(t)), scope |-> scope]
        ELSE From(Min(hits))

\* typeof inputString === "string"
IsText(t) == DOMAIN t = 1..Len(t)

\* The braces of the three expressions of PrepareArguments.BRACES
BraceKinds == << <<"(", ")">>, <<"[", "]">>, <<"{", "}">> >>

\* for (const expr of regexp) inputString = replace(inputString, expr, callback):
\* r holds the text so far and the scope; replace() takes a string only
RECURSIVE BracesLoop(_, _)
BracesLoop(kinds, r) ==
    IF kinds = <<>> \/ ~IsText(r.text) THEN r
    ELSE BracesLoop(Tail(kinds),
                    BracesPass(r.text, 1, r.scope, kinds[1][1], kinds[1][2]))

\* parse.braces: the three expressions of PrepareArguments.BRACES, one pass each
Braces(t, scope) == BracesLoop(BraceKinds, [text |-> t, scope |-> scope])

\* The callback of one parse rule, applied by replace()
ApplyParseRule(rule, t, scope) ==
    CASE rule.name = "brackets"    -> Brackets(t, 1, scope)
      [] rule.name = "trimBorders" -> [text |-> TrimBorders(t), scope |-> scope]
      [] rule.name = "trimSpaces"  -> [text |-> TrimSpaces(t), scope |-> scope]
      [] rule.name = "trimMath"    -> [text |-> TrimMath(t, 1), scope |-> scope]
      [] rule.name = "trimBraces"  -> [text |-> TrimBraces(t), scope |-> scope]
      [] rule.name = "minus"       -> Minus(t, 1, scope)
      [] rule.name = "braces"      -> Braces(t, scope)

\* for (const rule of rules) inputString = replace(inputString, ...): r holds the
\* text so far and the scope; replace() takes a string only
RECURSIVE ReplacerLoop(_, _)
ReplacerLoop(rules, r) ==
    IF rules = <<>> \/ ~IsText(r.text) THEN r
    ELSE ReplacerLoop(Tail(rules), ApplyParseRule(rules[1], r.text, r.scope))

\* replacer(rules, inputString, {scope}): every rule once, in registry order
replacer(rules, t, scope) == ReplacerLoop(rules, [text |-> t, scope |-> scope])

(***************************************************************************)
(* Commands: the command storage and the dispatcher execFn                 *)
(***************************************************************************)
\* A flag cluster such as -ab is written with one lexeme per letter.
\* A capitalised word (the "Array" of "asArray") is the word marked in h.
Capitalize(e) == [c |-> e.c, h |-> <<Ch("^")>>]

\* convertToCamelCase(text, "-"): a dash is dropped, the word after it capitalised
RECURSIVE convertToCamelCase(_)
convertToCamelCase(t) ==
    IF t = <<>> THEN <<>>
    ELSE IF t[1].c = "-" /\ Len(t) > 1
         THEN <<Capitalize(t[2])>> \o convertToCamelCase(SubSeq(t, 3, Len(t)))
         ELSE <<t[1]>> \o convertToCamelCase(Tail(t))

\* CommandArgProperties.SCOPE and CommandArgProperties.MODE
ARG_SCOPE == Str(<<"scope">>)

ARG_MODE == Str(<<"mode">>)

\* The scope object, as an argument of a callback
ScopeRef == [t |-> "scope"]

\* One argument descriptor; an absent default is undefined
ArgDesc(name, variadic, required, default) ==
    [name |-> name, variadic |-> variadic, required |-> required, default |-> default]

NoFlags == [f \in {} |-> 0]

\* The commands of the test configuration
ConcatCommand ==
    [name  |-> Str(<<"concat">>),
     flags |-> (Ch("a") :> 1) @@ (Ch("b") :> 2) @@ (Ch("c") :> 4) @@ (Ch("D") :> 8),
     args  |-> << ArgDesc(ARG_SCOPE, FALSE, TRUE, Undef),
                  ArgDesc(ARG_MODE, FALSE, TRUE, Num(2)),
                  ArgDesc(Str(<<"delim">>), FALSE, FALSE, StrV(Str(<<" ">>))),
                  ArgDesc(Str(<<"args">>), TRUE, FALSE, Undef) >>]

MinCommand ==
    [name  |-> Str(<<"min">>),
     flags |-> NoFlags,
     args  |-> << ArgDesc(Str(<<"values">>), TRUE, TRUE, Undef) >>]

RandomCommand ==
    [name |-> Str(<<"random">>), flags |-> NoFlags, args |-> << >>]

AsyncCommand ==
    [name  |-> Str(<<"async">>),
     flags |-> NoFlags,
     args  |-> << ArgDesc(Str(<<"context">>), FALSE, FALSE, Undef),
                  ArgDesc(<<Ch("as"), Capitalize(Ch("array"))>>, FALSE, FALSE, Bool(FALSE)) >>]

\* addCommand: the compiled command, its named arguments carrying their index
addCommand(store, command) ==
    LET names == {command.args[i].name : i \in 1..Len(command.args)}
        last(n) == CHOOSE i \in 1..Len(command.args) :
                      /\ command.args[i].name = n
                      /\ \A j \in 1..Len(command.args) : command.args[j].name = n => j <= i
        named == [n \in names |->
                    [ind      |-> last(n) - 1,
                     variadic |-> command.args[last(n)].variadic,
                     default  |-> command.args[last(n)].default]]
    IN  Put(store, command.name,
            [name |-> command.name, flags |-> command.flags,
             args |-> command.args, namedArgs |-> named])

RECURSIVE addCommands(_, _)
addCommands(store, commands) ==
    IF commands = <<>> THEN store
    ELSE addCommands(addCommand(store, commands[1]), Tail(commands))

\* The command storage after setConfig
XSH_COMMANDS ==
    addCommands(NoVars, <<ConcatCommand, MinCommand, RandomCommand, AsyncCommand>>)

\* isCommandCallable
isCommandCallable(store, x) == isString(x) /\ x.v \in DOMAIN store

\* a | b on 32-bit integers, for the non-negative weights of flags
RECURSIVE BitOr(_, _)
BitOr(a, b) ==
    IF a = 0 THEN b
    ELSE IF b = 0 THEN a
    ELSE (IF a % 2 = 1 \/ b % 2 = 1 THEN 1 ELSE 0) + 2 * BitOr(a \div 2, b \div 2)

\* ToInt32 of the left operand of |
ToInt32(x) ==
    CASE x.t = "num"  -> x.v
      [] x.t = "bool" -> IF x.v THEN 1 ELSE 0
      [] OTHER        -> 0

\* The length of a sparse array: one more than its greatest index
ArrLen(a) ==
    IF DOMAIN a = {} THEN 0
    ELSE (CHOOSE i \in DOMAIN a : \A j \in DOMAIN a : j <= i) + 1

\* ...callbackArgs: the holes of the array are undefined
Spread(a) == [k \in 1..ArrLen(a) |-> Get(a, k - 1)]

\* The state of execFn while it walks the descriptors
ExecFnStart(args) ==
    [args |-> args, key |-> <<>>, cb |-> NoVars, last |-> <<>>,
     optional |-> FALSE, variadic |-> FALSE, brk |-> FALSE, err |-> ""]

IsLongOption(arg) == isString(arg) /\ StartsWith(arg.v, Str(<<"-", "-">>))

\* The test of a run of flags, were it to hold of no argument
IsNoOption(arg) == FALSE

IsShortOption(arg) == isString(arg) /\ StartsWith(arg.v, Str(<<"-">>))

\* mode |= flags[flag] for each letter of the cluster; PropertyNotFound on an unknown letter
RECURSIVE OrFlags(_, _, _)
OrFlags(flags, modes, mode) ==
    IF modes = <<>> THEN [mode |-> mode, err |-> ""]
    ELSE IF modes[1] \notin DOMAIN flags THEN [mode |-> mode, err |-> "PropertyNotFound"]
    ELSE OrFlags(flags, Tail(modes), BitOr(mode, flags[modes[1]]))

\* callbackArgs[named[key].ind] = true when a pending key is not variadic
PendingKeyTrue(command, st) ==
    IF st.key # <<>> /\ ~command.namedArgs[st.key[1]].variadic
    THEN Put(st.cb, command.namedArgs[st.key[1]].ind, Bool(TRUE))
    ELSE st.cb

\* lastArgs.push(arg), were it to put the argument first
PushFirst(last, arg) == <<arg>> \o last

\* lastArgs.push(arg)
Push(last, arg) == Append(last, arg)

\* One turn of the loop "while (args.length)" for descriptor i (0-based)
ExecFnToken(command, i, st) ==
    LET arg  == Head(st.args)
        s1   == [st EXCEPT !.args = Tail(st.args)]
        desc == command.args[i + 1]
    IN  IF IsLongOption(arg)
        THEN IF s1.variadic THEN [s1 EXCEPT !.err = "WrongArgumentPosition"]
             ELSE LET key == convertToCamelCase(SubSeq(arg.v, 3, Len(arg.v)))
                      s2  == [s1 EXCEPT !.optional = TRUE,
                                        !.cb = PendingKeyTrue(command, s1),
                                        !.key = <<key>>]
                  IN  IF key \in DOMAIN command.namedArgs THEN s2
                      ELSE [s2 EXCEPT !.err = "PropertyNotFound"]
        ELSE IF IsShortOption(arg)
        THEN IF s1.variadic THEN [s1 EXCEPT !.err = "WrongArgumentPosition"]
             ELSE IF ARG_MODE \notin DOMAIN command.namedArgs
                  THEN [s1 EXCEPT !.err = "PropertyNotFound"]
             ELSE LET ind  == command.namedArgs[ARG_MODE].ind
                      from == ToInt32(Coalesce(Get(s1.cb, ind), Num(0)))
                      r    == OrFlags(command.flags, Tail(arg.v), from)
                  IN  IF r.err # "" THEN [s1 EXCEPT !.err = r.err]
                      ELSE [s1 EXCEPT !.cb = Put(s1.cb, ind, Num(r.mode))]
        ELSE IF s1.key # <<>> /\ ~command.namedArgs[s1.key[1]].variadic
        THEN [s1 EXCEPT !.cb = Put(s1.cb, command.namedArgs[s1.key[1]].ind,
                                   Coalesce(arg, command.namedArgs[s1.key[1]].default)),
                        !.key = <<>>,
                        !.brk = TRUE]
        ELSE IF s1.key # <<>>
        THEN [s1 EXCEPT !.last = Push(s1.last, arg)]
        ELSE IF ~s1.optional
        THEN IF desc.variadic
             THEN [s1 EXCEPT !.last = Push(s1.last, arg), !.variadic = TRUE]
             ELSE [s1 EXCEPT !.cb = Put(s1.cb, i, Coalesce(arg, desc.default)),
                             !.brk = TRUE]
        ELSE [s1 EXCEPT !.err = "WrongArgumentPosition"]

\* The loop "while (args.length)", were it to go on after a break
RECURSIVE ExecFnWhileNoBreak(_, _, _)
ExecFnWhileNoBreak(command, i, st) ==
    IF st.args = <<>> \/ st.err # "" THEN st
    ELSE ExecFnWhileNoBreak(command, i, ExecFnToken(command, i, st))

\* The loop "while (args.length)" for descriptor i, up to its break or an error
RECURSIVE ExecFnWhile(_, _, _)
ExecFnWhile(command, i, st) ==
    IF st.args = <<>> \/ st.err # "" \/ st.brk THEN st
    ELSE ExecFnWhile(command, i, ExecFnToken(command, i, st))

\* The body of the loop over the descriptors for descriptor i (0-based)
ExecFnDescriptor(command, i, st) ==
    LET desc == command.args[i + 1]
    IN  IF desc.name = ARG_SCOPE THEN [st EXCEPT !.cb = Put(st.cb, i, ScopeRef)]
        ELSE IF desc.name = ARG_MODE THEN st
        ELSE IF desc.variadic /\ i # Len(command.args) - 1
        THEN [st EXCEPT !.err = "WrongArgumentPosition"]
        ELSE LET Checked(w, c2) ==
                     IF w.err # "" THEN w
                     ELSE IF desc.required
                             /\ \/ IsNullish(Get(c2, i)) /\ ~desc.variadic
                                \/ desc.variadic /\ Len(w.last) = 0
                     THEN [w EXCEPT !.cb = c2, !.err = "PropertyRequired"]
                     ELSE [w EXCEPT !.cb = c2]
                 Defaulted(w, c1) ==
                     Checked(w, IF ~desc.variadic /\ IsNullish(Get(c1, i))
                                THEN Put(c1, i, desc.default) ELSE c1)
                 AfterWhile(w) == Defaulted(w, PendingKeyTrue(command, w))
             IN  AfterWhile(ExecFnWhile(command, i, [st EXCEPT !.brk = FALSE]))

\* for (let i = 0; i < commandArgs.length; i++)
RECURSIVE ExecFnLoop(_, _, _)
ExecFnLoop(command, i, st) ==
    IF i >= Len(command.args) \/ st.err # "" THEN st
    ELSE ExecFnLoop(command, i + 1, ExecFnDescriptor(command, i, st))

\* execFn(fn, args, scope) for a command of the storage: the error it throws, or the
\* arguments its callback is invoked with (callbackArgs spread, then lastArgs);
\* rest holds the tokens execFn never looked at.
execFn(command, args) ==
    LET hasMode == ARG_MODE \in DOMAIN command.namedArgs
        mode == command.namedArgs[ARG_MODE]
        Invoke(st, cb) ==
            [err |-> "", invoked |-> TRUE, cb |-> Spread(cb), last |-> st.last,
             rest |-> st.args]
        Fail(st, err) ==
            [err |-> err, invoked |-> FALSE, cb |-> <<>>, last |-> <<>>, rest |-> st.args]
        AfterLoop(st) ==
            IF st.err # "" THEN Fail(st, st.err)
            ELSE IF Len(command.args) = 0 /\ Len(st.args) > 0
            THEN Fail(st, "ArgumentsLengthInvalid")
            ELSE IF hasMode /\ IsNullish(Get(st.cb, mode.ind))
            THEN Invoke(st, Put(st.cb, mode.ind, Coalesce(mode.default, Num(0))))
            ELSE Invoke(st, st.cb)
    IN  AfterLoop(ExecFnLoop(command, 0, ExecFnStart(args)))

(***************************************************************************)
(* Values of the converter                                                 *)
(***************************************************************************)
\* An object: a map from key texts to values
Obj(map) == [t |-> "obj", v |-> map]

\* A promise that resolves to x
Promise(x) == [t |-> "promise", v |-> x]

\* A quotient that is no integer (p / q)
Ratio(p, q) == [t |-> "ratio", p |-> p, q |-> q]

\* String.prototype.toLowerCase, for the spellings of the literals
ToLowerLexeme(e) ==
    CASE e.c \in {"NULL", "Null"}           -> Ch("null")
      [] e.c \in {"UNDEFINED", "Undefined"} -> Ch("undefined")
      [] e.c \in {"TRUE", "True"}           -> Ch("true")
      [] e.c \in {"FALSE", "False"}         -> Ch("false")
      [] e.c = "X"                          -> Ch("x")
      [] e.c = "_MD5"                       -> [e EXCEPT !.c = "_md5"]
      [] OTHER                              -> e

toLowerCase(t) == [i \in 1..Len(t) |-> ToLowerLexeme(t[i])]

\* String.prototype.toUpperCase, for the names of the constants
ToUpperLexeme(e) ==
    CASE e.c = "x"    -> Ch("X")
      [] e.c = "_md5" -> [e EXCEPT !.c = "_MD5"]
      [] OTHER        -> e

toUpperCase(t) == [i \in 1..Len(t) |-> ToUpperLexeme(t[i])]

\* A function held by a scope: the closure that a template rule stores, with the
\* text and the line terminator that it captured
Fn(rule, text, end) == [t |-> "fn", v |-> [rule |-> rule, text |-> text, end |-> end]]

isFunction(x) == x.t = "fn"

DigitLexeme(d) ==
    CASE d = 0 -> Ch("0") [] d = 1 -> Ch("1") [] d = 2 -> Ch("2") [] d = 3 -> Ch("3")
      [] d = 4 -> Ch("4") [] d = 5 -> Ch("5") [] d = 6 -> Ch("6") [] d = 7 -> Ch("7")
      [] d = 8 -> Ch("8") [] d = 9 -> Ch("9")

\* String(n) for a natural number
RECURSIVE NatToText(_)
NatToText(n) ==
    IF n < 10 THEN <<DigitLexeme(n)>> ELSE NatToText(n \div 10) \o <<DigitLexeme(n % 10)>>

\* String(n) for an integer
IntToText(n) == IF n < 0 THEN <<Ch("-")>> \o NatToText(0 - n) ELSE NatToText(n)

\* String(value), as Array.prototype.join spells an element
ToText(x) ==
    CASE x.t = "str"   -> x.v
      [] x.t = "num"   -> IntToText(x.v)
      [] x.t = "float" -> x.v
      [] x.t = "bool"  -> IF x.v THEN Str(<<"true">>) ELSE Str(<<"false">>)
      [] OTHER         -> <<>>

\* Array.prototype.join: null and undefined elements are spelled empty
RECURSIVE Join(_, _)
Join(items, delim) ==
    IF items = <<>> THEN <<>>
    ELSE IF Len(items) = 1 THEN ToText(items[1])
    ELSE ToText(items[1]) \o delim \o Join(Tail(items), delim)

\* typeof x === "number"
isNumber(x) == x.t \in {"num", "float", "ratio"}

\* x instanceof Object
isObjectLike(x) == x.t \in {"arr", "obj", "scope", "promise"}

\* a === b (two array or object literals are never the same object)
StrictEq(a, b) == a.t \notin {"arr", "obj"} /\ a = b

\* Number(x) for the operands of ==, when it is an integer
ToNumber(x) ==
    CASE x.t = "num"  -> <<x.v>>
      [] x.t = "bool" -> <<IF x.v THEN 1 ELSE 0>>
      [] x.t = "str"  -> IF x.v = <<>> THEN <<0>>
                         ELSE IF MatchesNumber(x.v) THEN <<parseInt(x.v)>> ELSE <<>>
      [] OTHER        -> <<>>

\* a == b
LooseEq(a, b) ==
    IF IsNullish(a) \/ IsNullish(b) THEN IsNullish(a) /\ IsNullish(b)
    ELSE IF a.t = b.t THEN StrictEq(a, b)
    ELSE IF a.t \in {"num", "bool", "str"} /\ b.t \in {"num", "bool", "str"}
         THEN ToNumber(a) # <<>> /\ ToNumber(a) = ToNumber(b)
    ELSE FALSE

\* The callback of a math rule on integer operands
MathOnNumbers(name, a, b) ==
    CASE name = "ge"  -> Bool(a >= b)
      [] name = "le"  -> Bool(a <= b)
      [] name = "gt"  -> Bool(a > b)
      [] name = "lt"  -> Bool(a < b)
      [] name = "add" -> Num(a + b)
      [] name = "sub" -> Num(a - b)
      [] name = "mul" -> Num(a * b)
      [] name = "div" -> IF b # 0 /\ a % b = 0 THEN Num(a \div b) ELSE Ratio(a, b)
      [] name = "mod" -> IF b > 0 /\ a >= 0 THEN Num(a % b) ELSE Ratio(a, b)

\* The callback of a math rule: the value, or the error prepareProperty throws.
\* Operands that are numbers but no integers are outside this model.
MathCallback(name, a, b) ==
    CASE name = "eqv" -> [err |-> "", val |-> Bool(StrictEq(a, b))]
      [] name = "neq" -> [err |-> "", val |-> Bool(~StrictEq(a, b))]
      [] name = "eq"  -> [err |-> "", val |-> Bool(LooseEq(a, b))]
      [] name = "ne"  -> [err |-> "", val |-> Bool(~LooseEq(a, b))]
      [] name = "add" ->
            IF ~(isNumber(a) \/ isString(a) \/ isObjectLike(a))
               \/ ~(isNumber(b) \/ isString(b) \/ isObjectLike(b))
            THEN [err |-> "PropertyTypeMismatch", val |-> Undef]
            ELSE IF isArray(a) /\ isArray(b) THEN [err |-> "", val |-> Arr(a.v \o b.v)]
            ELSE IF a.t = "obj" /\ b.t = "obj" THEN [err |-> "", val |-> Obj(b.v @@ a.v)]
            ELSE IF a.t = "num" /\ b.t = "num" THEN [err |-> "", val |-> Num(a.v + b.v)]
            ELSE [err |-> "", val |-> StrV(ToText(a) \o ToText(b))]
      [] OTHER ->
            IF ~isNumber(a) \/ ~isNumber(b)
            THEN [err |-> "PropertyTypeMismatch", val |-> Undef]
            ELSE IF a.t = "num" /\ b.t = "num"
            THEN [err |-> "", val |-> MathOnNumbers(name, a.v, b.v)]
            ELSE [err |-> "", val |-> Ratio(a, b)]

\* parseMath: the left fold of the operands with the callback of the rule
RECURSIVE parseMath(_, _, _)
parseMath(name, res, operands) ==
    IF operands = <<>> THEN [err |-> "", val |-> res]
    ELSE LET r == MathCallback(name, res, operands[1])
         IN  IF r.err # "" THEN r ELSE parseMath(name, r.val, Tail(operands))

\* Check.HAS_MATH
HasMathChars == {"-", "+", "*", "/", "%", ">", "<"}

HasMath(t) ==
    \/ \E i \in 1..Len(t) : t[i].c \in HasMathChars
    \/ Includes(t, Str(<<"=", "=">>))
    \/ Includes(t, Str(<<"!", "=">>))

(***************************************************************************)
(* Variables: getVar and setVar.  Values are copied, never shared: an      *)
(* object reachable through two names is outside this model.               *)
(***************************************************************************)
\* The property key a value is used as
KeyOf(k) == IF k.t = "num" THEN IntToText(k.v) ELSE ToText(k)

\* res[key] for an array or an object; any other receiver has no such property here
PropGet(res, key) ==
    CASE res.t = "arr" -> IF key.t = "num" /\ key.v >= 0 /\ key.v < Len(res.v)
                          THEN res.v[key.v + 1] ELSE Undef
      [] res.t = "obj" -> Get(res.v, KeyOf(key))
      [] OTHER         -> Undef

isPromise(x) == x.t = "promise"

\* The outcome of reading a property of null or undefined
TypeError == [t |-> "TypeError"]

\* The callback of res.then in getVar, were it to read the key of a null
ThenItemOfNull(res, key) == IF IsNullish(res) THEN TypeError ELSE PropGet(res, key)

\* The callback of res.then in getVar: a null stays, and so does a null item
ThenItem(res, key) == IF IsNullish(res) THEN res ELSE PropGet(res, key)

\* promise.then(callback): a promise that the callback returns is adopted
Then(x) == IF isPromise(x) THEN x ELSE Promise(x)

\* The loop of getVar over name[1..]: a null on the way ends it with the default
\* value, and a promise on the way is followed with then()
RECURSIVE getVarPath(_, _, _)
getVarPath(res, keys, defaultValue) ==
    IF keys = <<>>
    THEN IF isPromise(res) THEN Promise(Coalesce(res.v, defaultValue))
         ELSE Coalesce(res, defaultValue)
    ELSE IF isPromise(res)
    THEN getVarPath(Then(ThenItem(res.v, keys[1])), Tail(keys), defaultValue)
    ELSE IF IsNullish(res) THEN defaultValue
    ELSE IF IsNullish(PropGet(res, keys[1])) THEN defaultValue
    ELSE getVarPath(PropGet(res, keys[1]), Tail(keys), defaultValue)

\* getVar(name, scope, defaultValue), were VARS to come ahead of the scope
getVarGlobalFirst(name, scope, vars, defaultValue) ==
    [err |-> "",
     val |-> Coalesce(Coalesce(Get(vars, name.v), Get(scope, name.v)), defaultValue)]

\* getVar(name, scope, defaultValue): scope[name] ?? VARS[name] ?? defaultValue
\* for a string, the walk along the path for an array
RECURSIVE getVar(_, _, _, _)
getVar(name, scope, vars, defaultValue) ==
    IF isString(name)
    THEN [err |-> "",
          val |-> Coalesce(Coalesce(Get(scope, name.v), Get(vars, name.v)), defaultValue)]
    ELSE IF isArray(name)
    THEN IF name.v = <<>> THEN [err |-> "ParameterTypeInvalid", val |-> Undef]
         ELSE LET r == getVar(name.v[1], scope, vars, defaultValue)
              IN  IF r.err # "" THEN r
                  ELSE [err |-> "", val |-> getVarPath(r.val, Tail(name.v), defaultValue)]
    ELSE [err |-> "ParameterTypeInvalid", val |-> Undef]

\* res[key] = value on an array or an object; a promise takes the property as an
\* object of its own, and what it resolves to stays as it is
PropPut(res, key, value) ==
    IF res.t = "obj" THEN [err |-> "", val |-> Obj(Put(res.v, KeyOf(key), value))]
    ELSE IF isPromise(res) THEN [err |-> "", val |-> res]
    ELSE IF res.t = "arr" /\ key.t = "num" /\ key.v >= 0
    THEN [err |-> "",
          val |-> Arr([i \in 1..(IF key.v < Len(res.v) THEN Len(res.v) ELSE key.v + 1) |->
                          IF i = key.v + 1 THEN value
                          ELSE IF i <= Len(res.v) THEN res.v[i] ELSE Undef])]
    ELSE [err |-> "TypeError", val |-> res]

\* The walk of setVar below VARS[name[0]]: getProperty for each inner key, then the store
RECURSIVE setVarPath(_, _, _)
setVarPath(res, keys, value) ==
    IF Len(keys) = 1 THEN PropPut(res, keys[1], value)
    ELSE IF IsNullish(PropGet(res, keys[1])) THEN [err |-> "PropertyNotFound", val |-> res]
    ELSE IF isPromise(res) THEN [err |-> "PropertyTypeMismatch", val |-> res]
    ELSE LET inner == setVarPath(PropGet(res, keys[1]), Tail(keys), value)
         IN  IF inner.err # "" THEN [err |-> inner.err, val |-> res]
             ELSE PropPut(res, keys[1], inner.val)

\* setVar(name, value), were it to write nothing
setVarNowhere(name, value, vars) == [err |-> "", vars |-> vars]

\* setVar(name, value): only VARS is written
setVar(name, value, vars) ==
    IF isString(name) \/ name.t = "num"
    THEN [err |-> "", vars |-> Put(vars, KeyOf(name), value)]
    ELSE IF isArray(name) /\ name.v # <<>>
    THEN LET root == Get(vars, KeyOf(name.v[1]))
             keys == IF Len(name.v) = 1 THEN name.v ELSE Tail(name.v)
             Written(r) ==
                 IF r.err # "" THEN [err |-> r.err, vars |-> vars]
                 ELSE [err |-> "", vars |-> Put(vars, KeyOf(name.v[1]), r.val)]
         IN  IF isPromise(root) THEN [err |-> "PropertyTypeMismatch", vars |-> vars]
             ELSE Written(setVarPath(root, keys, value))
    ELSE IF isArray(name) THEN [err |-> "TypeError", vars |-> vars]
    ELSE [err |-> "ParameterTypeInvalid", vars |-> vars]

\* isVariable and isRunnableVariable
isVariable(t) == StartsWith(t, Str(<<"$">>))

isRunnableVariable(t) == StartsWith(t, Str(<<"$", "$">>))

\* value.replace(Check.IS_VARIABLE, ""): the text after its leading "$" lexemes
RECURSIVE StripVarPrefix(_)
StripVarPrefix(t) ==
    IF t # <<>> /\ t[1].c = "$" THEN StripVarPrefix(Tail(t)) ELSE t

\* The callbacks of the test configuration
CommandCallback(name, args) ==
    LET arg(i) == IF i <= Len(args) THEN args[i] ELSE Undef
    IN  CASE name = Str(<<"concat">>) ->
               StrV(Join(SubSeq(args, 4, Len(args)),
                         IF arg(3).t = "undef" THEN Str(<<" ">>) ELSE ToText(arg(3))))
          [] name = Str(<<"min">>) ->
               IF \A i \in 1..Len(args) : args[i].t = "num"
               THEN Num(CHOOSE m \in {args[i].v : i \in 1..Len(args)} :
                           \A i \in 1..Len(args) : m <= args[i].v)
               ELSE Ratio(0, 0)
          [] name = Str(<<"async">>) ->
               Promise(IF Truthy(arg(2)) THEN Arr(<<arg(1)>>) ELSE arg(1))
          \* Math.random: some number of [0, 1)
          [] OTHER -> Ratio(1, 2)

(***************************************************************************)
(* The synchronous evaluator.  An evaluation threads a record st: the      *)
(* caller's scope, the global VARS, the error thrown (err, "" if none),    *)
(* the value returned (val) and log, the values handed to convertSync in   *)
(* the order of the calls.                                                 *)
(***************************************************************************)
NewState(scope, vars) ==
    [scope |-> scope, vars |-> vars, err |-> "", val |-> Undef, log |-> <<>>]

Return(st, v) == [st EXCEPT !.val = v]

Throw(st, e) == [st EXCEPT !.err = e, !.val = Undef]

Leaf(text) == [k |-> "leaf", text |-> text]

Node(rule, kids) == [k |-> "node", rule |-> rule, kids |-> kids]

\* The operators of the evaluator call one another through Call, by name and
\* with the arguments in a tuple.
RECURSIVE Call(_, _)
RECURSIVE exec(_, _, _)
RECURSIVE convertSync(_, _, _)
RECURSIVE parseCommand(_, _, _)
RECURSIVE ParseNormalized(_, _)
RECURSIVE ParseParts(_, _, _)

\* parseCommand(command, scope, index): the subcommand tree, and the scope the
\* normalizer wrote its hash variables to
parseCommand(command, scope, index) ==
    ParseNormalized(replacer(PARSE_COMMAND, command, scope), index)

\* parseCommand once the command is normalized: r holds the text and the scope.
\* Without the key of COMMANDS[index] in the text, parseCommand goes on with the
\* next index; past the last, the text is a leaf.
ParseNormalized(r, index) ==
    CASE index >= Len(COMMANDS) -> [tree |-> Leaf(r.text), scope |-> r.scope]
      [] index < Len(COMMANDS) /\ ~Includes(r.text, COMMANDS[index + 1].key) ->
            ParseNormalized(replacer(PARSE_COMMAND, r.text, r.scope), index + 1)
      [] index < Len(COMMANDS) /\ Includes(r.text, COMMANDS[index + 1].key) ->
            LET Subcommands(p) ==
                    [tree |-> Node(COMMANDS[index + 1].name, p.kids), scope |-> p.scope]
            IN  Subcommands(ParseParts(Split(r.text, COMMANDS[index + 1].key),
                                       r.scope, index + 1))

\* for (let i = 0; i < subcommand.length; i++) commands[i] = parseCommand(...)
ParseParts(parts, scope, index) ==
    IF parts = <<>> THEN [kids |-> <<>>, scope |-> scope]
    ELSE LET p    == parseCommand(parts[1], scope, index)
             rest == ParseParts(Tail(parts), p.scope, index)
         IN  [kids |-> <<p.tree>> \o rest.kids, scope |-> rest.scope]

\* isEmptyString(part, true) for a subcommand
IsEmptyPart(part) == part.k = "leaf" /\ Trim(part.text) = <<>>

\* The break conditions, were "??" to stop at null as well
BreaksOnDefined(rule, res) ==
    CASE rule = "fail"    -> Truthy(res)
      [] rule = "success" -> ~Truthy(res)
      [] rule = "nullish" -> res # Undef

\* Whether the loop of "||", "&&" or "??" returns on this result
Breaks(rule, res) ==
    CASE rule = "fail"    -> Truthy(res)
      [] rule = "success" -> ~Truthy(res)
      [] rule = "nullish" -> ~IsNullish(res)

\* execCommand(subcommand, scope, exec, false)
execCommand(sub, st, ex) ==
    CASE sub.k = "leaf"      -> convertSync(StrV(sub.text), st, ex)
      [] sub.k = "node" /\ sub.rule = "end"     -> Call("EndLoop", <<sub.kids, st, Undef>>)
      [] sub.k = "node" /\ sub.rule = "context" -> Call("ContextLoop", <<sub.kids, st, Undef>>)
      [] sub.k = "node" /\ sub.rule = "out"     -> Call("OutCallback", <<sub.kids, st>>)
      [] sub.k = "node" /\ sub.rule = "param"   -> Call("ParamCallback", <<sub.kids, st>>)
      [] sub.k = "node" /\ sub.rule \in {"fail", "success", "nullish"} ->
            Call("BreakLoop", <<sub.rule, sub.kids, st, Undef>>)

\* command.end.callback, were it to skip an empty child and keep the result so far
EndLoopSkipsEmpty(kids, st, res) ==
    IF kids = <<>> THEN Return(st, res)
    ELSE IF IsEmptyPart(kids[1]) THEN Call("EndLoop", <<Tail(kids), st, res>>)
    ELSE LET s1 == Call("execCommand", <<kids[1], st, TRUE>>)
         IN  IF s1.err # "" THEN s1 ELSE Call("EndLoop", <<Tail(kids), s1, s1.val>>)

\* command.end.callback
EndLoop(kids, st, res) ==
    IF kids = <<>> THEN Return(st, res)
    ELSE IF IsEmptyPart(kids[1]) THEN Call("EndLoop", <<Tail(kids), st, Undef>>)
    ELSE LET s1 == Call("execCommand", <<kids[1], st, TRUE>>)
         IN  IF s1.err # "" THEN s1 ELSE Call("EndLoop", <<Tail(kids), s1, s1.val>>)

\* command.fail.callback, command.success.callback, command.nullish.callback
BreakLoop(rule, kids, st, res) ==
    IF kids = <<>> THEN Return(st, res)
    ELSE LET s1 == Call("execCommand", <<kids[1], st, TRUE>>)
         IN  IF s1.err # "" \/ Breaks(rule, s1.val) THEN s1
             ELSE Call("BreakLoop", <<rule, Tail(kids), s1, s1.val>>)

\* command.context.callback, were it to leave scope.context as the caller set it
ContextLoopKeepsContext(kids, st, res) ==
    IF kids = <<>> THEN Return(st, res)
    ELSE LET s1 == Call("execCommand", <<kids[1], st, TRUE>>)
         IN  IF s1.err # "" THEN s1 ELSE Call("ContextLoop", <<Tail(kids), s1, s1.val>>)

\* command.context.callback
ContextLoop(kids, st, res) ==
    IF kids = <<>> THEN Return(st, res)
    ELSE LET prevContext == Get(st.scope, CONTEXT)
             s0 == IF res # Undef
                   THEN [st EXCEPT !.scope = Put(st.scope, CONTEXT, res)] ELSE st
             s1 == Call("execCommand", <<kids[1], s0, TRUE>>)
             s2 == [s1 EXCEPT !.scope = Put(s1.scope, CONTEXT, prevContext)]
         IN  IF s1.err # "" THEN s1 ELSE Call("ContextLoop", <<Tail(kids), s2, s1.val>>)

\* command.out.callback
OutCallback(kids, st) ==
    LET s1 == Call("execCommand", <<kids[1], st, TRUE>>)
    IN  IF s1.err # "" THEN s1 ELSE Call("OutLoop", <<Tail(kids), s1, s1.val>>)

\* for (let i = 1; i < subcommand.length; i++) setVar(execCommandSync(subcommand[i]), res)
OutLoop(kids, st, res) ==
    IF kids = <<>> THEN Return(st, res)
    ELSE LET s1 == Call("execCommand", <<kids[1], st, TRUE>>)
             Stored(w) ==
                 IF w.err # "" THEN Throw(s1, w.err)
                 ELSE Call("OutLoop", <<Tail(kids), [s1 EXCEPT !.vars = w.vars], res>>)
         IN  IF s1.err # "" THEN s1 ELSE Stored(setVar(s1.val, res, s1.vars))

\* execFn(fn, args, scope) and the call of the callback
CallCommand(name, args, st) ==
    LET Invoked(r) ==
            IF r.err # "" THEN Throw(st, r.err)
            ELSE Return(st, CommandCallback(name, r.cb \o r.last))
    IN  Invoked(execFn(XSH_COMMANDS[name], args))

\* command.param.meta.checkValue: the first argument as a function, if it is one
ParamCheckValue(value, st) ==
    LET fn == value.v[1]
    IN  IF isCommandCallable(XSH_COMMANDS, fn)
        THEN Call("CallCommand", <<fn.v, Tail(value.v), st>>)
        ELSE IF Len(value.v) > 1 THEN Return(st, value)
        ELSE Return(st, fn)

\* command.param.callback
ParamCallback(kids, st) ==
    LET s1 == Call("convertArray", <<[i \in 1..Len(kids) |-> StrV(kids[i].text)], st, FALSE>>)
    IN  IF s1.err # "" THEN s1 ELSE Call("ParamCheckValue", <<s1.val, s1>>)

\* convertArray(arr, scope, exec, false): st.val is the array of the converted items
convertArray(items, st, ex) == Call("ConvertItems", <<items, st, ex, <<>>>>)

ConvertItems(items, st, ex, acc) ==
    IF items = <<>> THEN Return(st, Arr(acc))
    ELSE LET s1 == Call("convertSync", <<items[1], st, ex>>)
         IN  IF s1.err # "" THEN s1
             ELSE Call("ConvertItems", <<Tail(items), s1, ex, Append(acc, s1.val)>>)

\* convertObjectFromEntities: each entry is a pair <<key, value>> of values to convert
convertObjectFromEntities(entries, st, ex, acc) ==
    IF entries = <<>> THEN Return(st, Obj(acc))
    ELSE LET s1 == Call("convertSync", <<entries[1][1], st, ex>>)
             s2 == Call("convertSync", <<entries[1][2], s1, ex>>)
         IN  IF s1.err # "" THEN s1
             ELSE IF s2.err # "" THEN s2
             ELSE Call("convertObjectFromEntities", <<Tail(entries), s2, ex,
                                            Put(acc, KeyOf(s1.val), s2.val)>>)

Literal(value, word) == toLowerCase(value.v) = Str(<<word>>)

\* The math rules whose key splits the text into at least two operands
SplittingMath(t) == {i \in 1..Len(MATH) : Includes(t, MATH[i].key)}

\* Whether the callback of a convert rule returns (it throws Continue otherwise)
ConvertReturns(name, value, ex) ==
    CASE name = "isString"      -> ~isString(value)
      [] name = "isNull"        -> Literal(value, "null")
      [] name = "isUndefined"   -> Literal(value, "undefined")
      [] name = "isEmptyString" -> value.v = <<>>
      [] name = "isTrue"        -> Literal(value, "true")
      [] name = "isFalse"       -> Literal(value, "false")
      [] name = "isNumber"      -> MatchesNumber(value.v)
      [] name = "isFloat"       -> MatchesFloat(value.v)
      [] name = "isKeys"        -> StartsWith(value.v, Str(<<"-">>))
      [] name = "isMath"        -> HasMath(value.v) /\ SplittingMath(value.v) # {}
      [] name = "isVariable"    -> isVariable(value.v)
      [] name = "isCommand"     -> isCommandCallable(XSH_COMMANDS, value) /\ ex

\* The index of the first rule from i on whose callback returns (0 if all throw Continue)
RECURSIVE FirstReturning(_, _, _, _)
FirstReturning(rules, i, value, ex) ==
    IF i > Len(rules) THEN 0
    ELSE IF ConvertReturns(rules[i].name, value, ex) THEN i
    ELSE FirstReturning(rules, i + 1, value, ex)

\* An item of an object literal as the pair <<key, value>>; ind counts the items without key
RECURSIVE ObjectEntries(_, _)
ObjectEntries(items, ind) ==
    IF items = <<>> THEN <<>>
    ELSE LET assoc == Split(items[1], Str(<<":">>))
         IN  IF Len(assoc) > 1
             THEN << <<StrV(assoc[1]), StrV(assoc[2])>> >> \o ObjectEntries(Tail(items), ind)
             ELSE << <<Num(ind), StrV(assoc[1])>> >> \o ObjectEntries(Tail(items), ind + 1)

Enclosed(t, open, close) == Len(t) >= 1 /\ t[1].c = open /\ t[Len(t)].c = close

\* The value without the line terminator
CheckValueNoEnd(st, end) ==
    IF st.err # "" THEN st
    ELSE IF isNumber(st.val) \/ isString(st.val) THEN Return(st, StrV(ToText(st.val)))
    ELSE Return(st, StrV(<<>>))

\* template.command.meta.checkValue of ext-js: a number or a string, followed by
\* the line terminator; nothing for any other value
CheckValueEnd(st, end) ==
    IF st.err # "" THEN st
    ELSE IF isNumber(st.val) \/ isString(st.val) THEN Return(st, StrV(ToText(st.val) \o end))
    ELSE Return(st, StrV(<<>>))

\* name.at(0) === "_" ? name.toLowerCase() : convertToCamelCase(name, "_"), for a
\* name of one word
ConstVariable(name) == toLowerCase(name)

\* What the closure of a template rule hands to parse(): its command, or the
\* variable of its constant
ClosureCommand(f) ==
    CASE f.rule = "command"  -> f.text
      [] f.rule = "varConst" -> getVariableName(ConstVariable(f.text)[1])
      [] f.rule = "runConst" -> getRunnableVariableName(ConstVariable(f.text)[1])

\* The text that the value of a "$$" variable runs: a string, without the
\* parentheses around it, or the command of a closure
RunText(value) ==
    IF isFunction(value) THEN ClosureCommand(value.v)
    ELSE IF Enclosed(value.v, "(", ")") THEN SubSeq(value.v, 2, Len(value.v) - 1)
    ELSE value.v

\* The state in which it runs: parse(), called by a closure, sets scope.context
RunState(value, st) ==
    IF isFunction(value) THEN [st EXCEPT !.scope = Put(st.scope, CONTEXT, Null)] ELSE st

\* What the run returns: the closure of a directive returns checkValue(res, end)
RunResult(value, st) ==
    IF isFunction(value) /\ value.v.rule = "command" THEN CheckValueEnd(st, value.v.end)
    ELSE st

\* convert.isVariable.meta.checkValue: the value of a "$$" variable is run
VariableCheckValue(value, st) ==
    LET inner == SubSeq(value.v, 2, Len(value.v) - 1)
        items == Split(inner, Str(<<",">>))
    IN  IF isString(value) /\ Enclosed(value.v, "[", "]")
        THEN IF Trim(inner) = <<>> THEN Return(st, Arr(<<>>))
             ELSE Call("convertArray", <<[i \in 1..Len(items) |-> StrV(items[i])], st, FALSE>>)
        ELSE IF isString(value) /\ Enclosed(value.v, "{", "}")
        THEN IF Trim(inner) = <<>> THEN Return(st, Obj(NoVars))
             ELSE Call("convertObjectFromEntities", <<ObjectEntries(items, 0), st, FALSE, NoVars>>)
        ELSE IF isString(value) \/ isFunction(value)
        THEN RunResult(value, exec(RunText(value), RunState(value, st), TRUE))
        ELSE IF isArray(value) THEN Call("convertArray", <<value.v, st, FALSE>>)
        ELSE Return(st, value)

\* convert.isVariable.callback
IsVariableRule(t, st) ==
    LET parts == Split(StripVarPrefix(t), Str(<<".">>))
        s1    == Call("convertArray", <<[i \in 1..Len(parts) |-> StrV(parts[i])], st, FALSE>>)
        res   == getVar(s1.val, s1.scope, s1.vars, Undef)
    IN  IF s1.err = "" /\ res.err = "" /\ ~IsNullish(res.val) /\ isRunnableVariable(t)
        THEN VariableCheckValue(res.val, s1)
        ELSE IF s1.err # "" THEN s1
        ELSE IF res.err # "" THEN Throw(s1, res.err)
        ELSE Return(s1, res.val)

\* convert.isMath.callback: the first math rule, in registry order, whose key splits
\* the text folds the converted operands
MathRule(t, st) ==
    LET Folded(s1, r) ==
            IF r.err # "" THEN Throw(s1, r.err)
            ELSE IF r.val = Undef THEN Throw(s1, "MathResultInvalid")
            ELSE Return(s1, r.val)
        Operands(rule, s1) ==
            IF s1.err # "" THEN s1
            ELSE Folded(s1, parseMath(rule.name, s1.val.v[1], Tail(s1.val.v)))
        Texts(maths) == [i \in 1..Len(maths) |-> StrV(maths[i])]
        Rule(rule) ==
            Operands(rule, Call("convertArray", <<Texts(Split(t, rule.key)), st, FALSE>>))
    IN  Rule(MATH[Min(SplittingMath(t))])

\* The name of the first rule of category "convert", in registry order, whose
\* callback returns ("" if every callback throws Continue)
FirstRule(value, ex) ==
    LET i == FirstReturning(CONVERT, 1, value, ex)
    IN  IF i = 0 THEN "" ELSE CONVERT[i].name

\* The callback of the convert rule that returns; the value itself if none does
ConvertRule(name, value, st, ex) ==
    CASE name = ""              -> Return(st, value)
      [] name = "isString"      -> Return(st, value)
      [] name = "isNull"        -> Return(st, Null)
      [] name = "isUndefined"   -> Return(st, Undef)
      [] name = "isEmptyString" -> Return(st, StrV(<<>>))
      [] name = "isTrue"        -> Return(st, Bool(TRUE))
      [] name = "isFalse"       -> Return(st, Bool(FALSE))
      [] name = "isNumber"      -> Return(st, Num(parseInt(value.v)))
      [] name = "isFloat"       -> Return(st, parseFloat(value.v))
      [] name = "isKeys"        -> Return(st, value)
      [] name = "isMath"        -> MathRule(value.v, st)
      [] name = "isVariable"    -> IsVariableRule(value.v, st)
      [] name = "isCommand"     -> Call("CallCommand", <<value.v, <<>>, st>>)

\* convertSync(value, scope, exec): the first rule of category "convert", in registry
\* order, whose callback returns gives the result
convertSync(value, st, ex) ==
    ConvertRule(FirstRule(value, ex), value, [st EXCEPT !.log = Append(st.log, value)], ex)

\* exec once the command is parsed: p holds the tree and the scope
ExecParsed(p, st, ex) == execCommand(p.tree, [st EXCEPT !.scope = p.scope], ex)

\* exec(command, scope, exec, false)
exec(command, st, ex) == ExecParsed(parseCommand(command, st.scope, 0), st, ex)

\* parse(command, scope, context): scope[ScopeVars.CONTEXT] = context, then exec
parse(command, scope, context, vars) ==
    Call("exec", <<command, NewState(Put(scope, CONTEXT, context), vars), TRUE>>)

(***************************************************************************)
(* Async mode.  An async function runs until its first await; what follows *)
(* an await, and what follows the settling of a promise, runs in a promise *)
(* job, and the jobs run first in, first out.  A machine m holds the scope *)
(* object of the call and VARS, the frames (the calls of async functions,  *)
(* each with its position), the promises and the queue of jobs.            *)
(***************************************************************************)
NewMachine(scope, store) ==
    [scope |-> scope, vars |-> store, frames |-> <<>>, promises |-> <<>>, queue |-> <<>>]

\* A promise: st is "pending", "ok", or the name of the error of a rejection;
\* items and remaining serve Promise.all
Pending ==
    [st |-> "pending", val |-> Undef, waiters |-> <<>>, items |-> <<>>, remaining |-> 0]

\* What is to run once a promise is settled.  k = "resume": frame f goes on after
\* its await; "all": element i of the Promise.all p is settled; "fromEntries":
\* the then() of convertObjectFromEntities settles p; "thenable": p, resolved
\* with the promise i, calls its then(); "adopt": p takes the outcome.
Reaction(k, f, p, i) ==
    [k |-> k, f |-> f, p |-> p, i |-> i, st |-> "", val |-> Undef]

\* The call of an async function: its arguments and its local variables
Frame(fn, value, ex, kids) ==
    [fn |-> fn, pc |-> "start", promise |-> 0, value |-> value, ex |-> ex, r |-> 0,
     kids |-> kids, i |-> 1, res |-> Undef, prev |-> Undef]

\* The state a synchronous callback works on, and the machine after it
StateOf(m) == NewState(m.scope, m.vars)

Absorb(m, s) == [m EXCEPT !.scope = s.scope, !.vars = s.vars]

Enqueue(m, job) == [m EXCEPT !.queue = Append(@, job)]

\* A pending promise is fulfilled or rejected: a job for each of its reactions
Settle(m, p, st, val) ==
    IF m.promises[p].st # "pending" THEN m
    ELSE LET ws == m.promises[p].waiters
         IN  [m EXCEPT !.promises[p].st = st,
                       !.promises[p].val = val,
                       !.promises[p].waiters = <<>>,
                       !.queue = @ \o [k \in 1..Len(ws) |->
                                         [ws[k] EXCEPT !.st = st, !.val = val]]]

\* promise.then(reaction): a job at once if the promise is settled
Subscribe(m, p, reaction) ==
    IF m.promises[p].st = "pending"
    THEN [m EXCEPT !.promises[p].waiters = Append(@, reaction)]
    ELSE Enqueue(m, [reaction EXCEPT !.st = m.promises[p].st, !.val = m.promises[p].val])

\* A promise is resolved with a value: a deferred value is a thenable, adopted in
\* two further jobs
Resolve(m, p, x) ==
    IF x.t = "promise"
    THEN LET q == Len(m.promises) + 1
         IN  Enqueue([m EXCEPT !.promises =
                          Append(@, [Pending EXCEPT !.st = "ok", !.val = x.v])],
                     Reaction("thenable", 0, p, q))
    ELSE Settle(m, p, "ok", x)

\* await q, with q a promise
Await(m, f, pc1, q) ==
    Subscribe([m EXCEPT !.frames[f].pc = pc1], q, Reaction("resume", f, 0, 0))

\* await v, with v a value: the function goes on in a job of its own
AwaitValue(m, f, pc1, v) ==
    Enqueue([m EXCEPT !.frames[f].pc = pc1],
            [Reaction("resume", f, 0, 0) EXCEPT
                !.st = "ok", !.val = IF v.t = "promise" THEN v.v ELSE v])

\* return v, return q with q a promise, and throw, in an async function
ReturnVal(m, f, v) == Resolve(m, m.frames[f].promise, v)

ReturnPromise(m, f, q) == Enqueue(m, Reaction("thenable", 0, m.frames[f].promise, q))

ThrowErr(m, f, e) == Settle(m, m.frames[f].promise, e, Undef)

\* The values of Promise.all before any element is settled
RECURSIVE NoItems(_)
NoItems(n) == IF n = 0 THEN <<>> ELSE Append(NoItems(n - 1), Undef)

\* The values of Promise.all with the i-th set
SetItem(items, i, v) ==
    SubSeq(items, 1, i - 1) \o <<v>> \o SubSeq(items, i + 1, Len(items))

\* Promise.all(ps) for promises ps: the promise p is new and pending
RECURSIVE SubscribeAll(_, _, _, _)
SubscribeAll(m, ps, p, i) ==
    IF i > Len(ps) THEN m
    ELSE SubscribeAll(Subscribe(m, ps[i], Reaction("all", 0, p, i)), ps, p, i + 1)

PromiseAll(m, ps) ==
    LET p  == Len(m.promises) + 1
        m1 == [m EXCEPT !.promises =
                  Append(@, [Pending EXCEPT !.items = NoItems(Len(ps)),
                                            !.remaining = Len(ps)])]
    IN  [m |-> IF ps = <<>> THEN Settle(m1, p, "ok", Arr(<<>>))
               ELSE SubscribeAll(m1, ps, p, 1),
         p |-> p]

\* The job of an element of Promise.all
AllElement(m, job) ==
    IF m.promises[job.p].st # "pending" THEN m
    ELSE IF job.st # "ok" THEN Settle(m, job.p, job.st, Undef)
    ELSE LET m1 == [m EXCEPT !.promises[job.p].items = SetItem(@, job.i, job.val),
                             !.promises[job.p].remaining = @ - 1]
         IN  IF m1.promises[job.p].remaining = 0
             THEN Settle(m1, job.p, "ok", Arr(m1.promises[job.p].items))
             ELSE m1

\* Object.fromEntries(pairs)
RECURSIVE FromEntries(_, _)
FromEntries(pairs, acc) ==
    IF pairs = <<>> THEN acc
    ELSE FromEntries(Tail(pairs), Put(acc, KeyOf(pairs[1].v[1]), pairs[1].v[2]))

\* The convert rules with a callbackAsync
HasCallbackAsync(name) == name \in {"isMath", "isVariable"}

\* The index of the first rule from i on that convertAsync awaits: a rule with a
\* callbackAsync, or one whose callback returns (0 if there is none)
RECURSIVE NextRule(_, _, _, _)
NextRule(rules, i, value, ex) ==
    IF i > Len(rules) THEN 0
    ELSE IF HasCallbackAsync(rules[i].name) \/ ConvertReturns(rules[i].name, value, ex) THEN i
    ELSE NextRule(rules, i + 1, value, ex)


\* The call of an async function: it runs up to its first await, and its promise
\* is what the caller gets
CallFrame(m, frame) ==
    LET p  == Len(m.promises) + 1
        f  == Len(m.frames) + 1
        m1 == [m EXCEPT !.promises = Append(@, Pending),
                        !.frames = Append(@, [frame EXCEPT !.promise = p])]
    IN  [m |-> Call("Run", <<m1, f, Reaction("start", f, 0, 0)>>), p |-> p]

\* execCommand(subcommand, scope, exec, true): convertAsync, or the callbackAsync
\* of the rule of the subcommand
execCommandAsync(m, sub, ex) ==
    IF sub.k = "leaf" THEN Call("CallFrame", <<m, Frame("convertAsync", StrV(sub.text), ex, <<>>)>>)
    ELSE Call("CallFrame", <<m, Frame(sub.rule, Undef, ex, sub.kids)>>)

\* exec(command, scope, exec, true)
execAsync(m, command, ex) ==
    LET p == parseCommand(command, m.scope, 0)
    IN  Call("execCommandAsync", <<[m EXCEPT !.scope = p.scope], p.tree, ex>>)

\* parse(command, scope, context, true): the machine and the promise returned
parseAsync(command, scope, context, store) ==
    Call("execAsync", <<NewMachine(Put(scope, CONTEXT, context), store), command, TRUE>>)

\* convertArray(arr, scope, exec, true): convert is called on every item, each
\* call running up to its first await, and the promises go to Promise.all
CallItems(m, items, ex, ps) ==
    IF items = <<>> THEN [m |-> m, ps |-> ps]
    ELSE LET c == Call("CallFrame", <<m, Frame("convertAsync", items[1], ex, <<>>)>>)
         IN  Call("CallItems", <<c.m, Tail(items), ex, Append(ps, c.p)>>)

convertArrayAsync(m, items, ex) ==
    LET c == Call("CallItems", <<m, items, ex, <<>>>>)
    IN  PromiseAll(c.m, c.ps)

\* convertEntityItem on every entry: Promise.all of the key and the value
CallEntries(m, entries, ex, ps) ==
    IF entries = <<>> THEN [m |-> m, ps |-> ps]
    ELSE LET c == Call("convertArrayAsync", <<m, entries[1], ex>>)
         IN  Call("CallEntries", <<c.m, Tail(entries), ex, Append(ps, c.p)>>)

\* convertObjectFromEntities(arr, scope, exec, true):
\* Promise.all(res).then(obj => Object.fromEntries(obj))
convertObjectFromEntitiesAsync(m, entries, ex) ==
    LET c  == Call("CallEntries", <<m, entries, ex, <<>>>>)
        a  == PromiseAll(c.m, c.ps)
        d  == Len(a.m.promises) + 1
        m1 == [a.m EXCEPT !.promises = Append(@, Pending)]
    IN  [m |-> Subscribe(m1, a.p, Reaction("fromEntries", 0, d, 0)), p |-> d]

\* convertAsync(value, scope, exec), from the rule at index from on
ConvertLoop(m, f, from) ==
    LET fr == m.frames[f]
        i  == NextRule(CONVERT, from, fr.value, fr.ex)
    IN  IF i = 0 THEN ReturnVal(m, f, fr.value)
        ELSE IF HasCallbackAsync(CONVERT[i].name)
        THEN LET c == Call("CallFrame", <<[m EXCEPT !.frames[f].r = i],
                                Frame(CONVERT[i].name, fr.value, fr.ex, <<>>)>>)
             IN  Await(c.m, f, "rule", c.p)
        ELSE LET s == Call("ConvertRule", <<CONVERT[i].name, fr.value, StateOf(m), fr.ex>>)
             IN  IF s.err # "" THEN ThrowErr(Absorb(m, s), f, s.err)
                 ELSE AwaitValue(Absorb(m, s), f, "value", s.val)

\* convertAsync: "return await callback(...)", and the catch of Continue
convertAsync(m, f, in) ==
    LET fr == m.frames[f]
    IN  IF fr.pc = "start" THEN Call("ConvertLoop", <<m, f, 1>>)
        ELSE IF in.st = "ok" THEN ReturnVal(m, f, in.val)
        ELSE IF in.st = "Continue" THEN Call("ConvertLoop", <<m, f, fr.r + 1>>)
        ELSE ThrowErr(m, f, in.st)

\* convert.isMath.callbackAsync
isMathCallbackAsync(m, f, in) ==
    LET fr    == m.frames[f]
        t     == fr.value.v
        rule  == MATH[Min(SplittingMath(t))]
        maths == Split(t, rule.key)
        c     == Call("convertArrayAsync", <<m, [i \in 1..Len(maths) |-> StrV(maths[i])], FALSE>>)
        r     == parseMath(rule.name, in.val.v[1], Tail(in.val.v))
    IN  IF fr.pc = "start"
        THEN IF ConvertReturns("isMath", fr.value, fr.ex) THEN Await(c.m, f, "operands", c.p)
             ELSE ThrowErr(m, f, "Continue")
        ELSE IF in.st # "ok" THEN ThrowErr(m, f, in.st)
        ELSE IF r.err # "" THEN ThrowErr(m, f, r.err)
        ELSE IF r.val = Undef THEN ThrowErr(m, f, "MathResultInvalid")
        ELSE ReturnVal(m, f, r.val)

\* convert.isVariable.callbackAsync
isVariableCallbackAsync(m, f, in) ==
    LET fr    == m.frames[f]
        t     == fr.value.v
        parts == Split(StripVarPrefix(t), Str(<<".">>))
        c     == Call("convertArrayAsync", <<m, [i \in 1..Len(parts) |-> StrV(parts[i])], FALSE>>)
        res   == getVar(in.val, m.scope, m.vars, Undef)
    IN  IF fr.pc = "start"
        THEN IF isVariable(t) THEN Await(c.m, f, "keys", c.p)
             ELSE ThrowErr(m, f, "Continue")
        ELSE IF in.st # "ok" THEN ThrowErr(m, f, in.st)
        ELSE IF fr.pc = "keys"
        THEN IF res.err # "" THEN ThrowErr(m, f, res.err)
             ELSE AwaitValue(m, f, "var", res.val)
        ELSE IF IsNullish(in.val) THEN ReturnVal(m, f, in.val)
        ELSE IF isRunnableVariable(t) THEN Call("VariableCheckValueAsync", <<m, f, in.val>>)
        ELSE ReturnVal(m, f, in.val)

\* "return checkValue(res, {scope, async})" of convert.isVariable.callbackAsync:
\* what checkValue returns in async mode is a promise, but for an empty literal
\* and for a value that is no text and no array
VariableCheckValueAsync(m, f, value) ==
    LET inner == SubSeq(value.v, 2, Len(value.v) - 1)
        items == Split(inner, Str(<<",">>))
        c == IF isArray(value) THEN Call("convertArrayAsync", <<m, value.v, FALSE>>)
             ELSE IF Enclosed(value.v, "(", ")") THEN Call("execAsync", <<m, inner, TRUE>>)
             ELSE IF Enclosed(value.v, "[", "]")
             THEN Call("convertArrayAsync", <<m, [i \in 1..Len(items) |-> StrV(items[i])], FALSE>>)
             ELSE IF Enclosed(value.v, "{", "}")
             THEN Call("convertObjectFromEntitiesAsync", <<m, ObjectEntries(items, 0), FALSE>>)
             ELSE Call("execAsync", <<m, value.v, TRUE>>)
    IN  IF isString(value) /\ Enclosed(value.v, "[", "]") /\ Trim(inner) = <<>>
        THEN ReturnVal(m, f, Arr(<<>>))
        ELSE IF isString(value) /\ Enclosed(value.v, "{", "}") /\ Trim(inner) = <<>>
        THEN ReturnVal(m, f, Obj(NoVars))
        ELSE IF isString(value) \/ isArray(value) THEN ReturnPromise(c.m, f, c.p)
        ELSE ReturnVal(m, f, value)

\* command.end.callbackAsync
EndNext(m, f) ==
    LET fr == m.frames[f]
        c  == Call("execCommandAsync", <<m, fr.kids[fr.i], TRUE>>)
    IN  IF fr.i > Len(fr.kids) THEN ReturnVal(m, f, fr.res)
        ELSE IF IsEmptyPart(fr.kids[fr.i])
        THEN Call("EndNext", <<[m EXCEPT !.frames[f].res = Undef, !.frames[f].i = @ + 1], f>>)
        ELSE Await(c.m, f, "child", c.p)

endCallbackAsync(m, f, in) ==
    IF m.frames[f].pc = "start" THEN Call("EndNext", <<m, f>>)
    ELSE IF in.st # "ok" THEN ThrowErr(m, f, in.st)
    ELSE Call("EndNext", <<[m EXCEPT !.frames[f].res = in.val, !.frames[f].i = @ + 1], f>>)

\* command.fail.callbackAsync, command.success.callbackAsync,
\* command.nullish.callbackAsync
BreakNext(m, f) ==
    LET fr == m.frames[f]
        c  == Call("execCommandAsync", <<m, fr.kids[fr.i], TRUE>>)
    IN  IF fr.i > Len(fr.kids) THEN ReturnVal(m, f, fr.res)
        ELSE Await(c.m, f, "child", c.p)

breakCallbackAsync(m, f, in) ==
    IF m.frames[f].pc = "start" THEN Call("BreakNext", <<m, f>>)
    ELSE IF in.st # "ok" THEN ThrowErr(m, f, in.st)
    ELSE IF Breaks(m.frames[f].fn, in.val) THEN ReturnVal(m, f, in.val)
    ELSE Call("BreakNext", <<[m EXCEPT !.frames[f].res = in.val, !.frames[f].i = @ + 1], f>>)

\* command.context.callbackAsync
ContextNext(m, f) ==
    LET fr == m.frames[f]
        m1 == [m EXCEPT !.frames[f].prev = Get(m.scope, CONTEXT),
                        !.scope = IF fr.res # Undef THEN Put(@, CONTEXT, fr.res) ELSE @]
        c  == Call("execCommandAsync", <<m1, fr.kids[fr.i], TRUE>>)
    IN  IF fr.i > Len(fr.kids) THEN ReturnVal(m, f, fr.res)
        ELSE Await(c.m, f, "child", c.p)

contextCallbackAsync(m, f, in) ==
    IF m.frames[f].pc = "start" THEN Call("ContextNext", <<m, f>>)
    ELSE IF in.st # "ok" THEN ThrowErr(m, f, in.st)
    ELSE Call("ContextNext", <<[m EXCEPT !.frames[f].res = in.val,
                               !.frames[f].i = @ + 1,
                               !.scope = Put(@, CONTEXT, m.frames[f].prev)], f>>)

\* command.out.callbackAsync
OutNext(m, f) ==
    LET fr == m.frames[f]
        c  == Call("execCommandAsync", <<m, fr.kids[fr.i], TRUE>>)
    IN  IF fr.i > Len(fr.kids) THEN ReturnVal(m, f, fr.res)
        ELSE Await(c.m, f, "name", c.p)

outCallbackAsync(m, f, in) ==
    LET fr == m.frames[f]
        c  == Call("execCommandAsync", <<m, fr.kids[1], TRUE>>)
        w  == setVar(in.val, fr.res, m.vars)
    IN  IF fr.pc = "start" THEN Await(c.m, f, "first", c.p)
        ELSE IF in.st # "ok" THEN ThrowErr(m, f, in.st)
        ELSE IF fr.pc = "first"
        THEN Call("OutNext", <<[m EXCEPT !.frames[f].res = in.val, !.frames[f].i = 2], f>>)
        ELSE IF w.err # "" THEN ThrowErr(m, f, w.err)
        ELSE Call("OutNext", <<[m EXCEPT !.vars = w.vars, !.frames[f].i = @ + 1], f>>)

\* command.param.callbackAsync
paramCallbackAsync(m, f, in) ==
    LET fr == m.frames[f]
        c  == Call("convertArrayAsync", <<m, [i \in 1..Len(fr.kids) |-> StrV(fr.kids[i].text)], FALSE>>)
        s  == ParamCheckValue(in.val, StateOf(m))
    IN  IF fr.pc = "start" THEN Await(c.m, f, "args", c.p)
        ELSE IF in.st # "ok" THEN ThrowErr(m, f, in.st)
        ELSE IF s.err # "" THEN ThrowErr(Absorb(m, s), f, s.err)
        ELSE ReturnVal(Absorb(m, s), f, s.val)

\* The frame f runs on, from its start or from its await, up to its next await or
\* its end; in is the outcome of what it awaited
Run(m, f, in) ==
    LET fn == m.frames[f].fn
    IN  CASE fn = "convertAsync" -> Call("convertAsync", <<m, f, in>>)
          [] fn = "isMath"       -> Call("isMathCallbackAsync", <<m, f, in>>)
          [] fn = "isVariable"   -> Call("isVariableCallbackAsync", <<m, f, in>>)
          [] fn = "end"          -> Call("endCallbackAsync", <<m, f, in>>)
          [] fn = "context"      -> Call("contextCallbackAsync", <<m, f, in>>)
          [] fn = "out"          -> Call("outCallbackAsync", <<m, f, in>>)
          [] fn = "param"        -> Call("paramCallbackAsync", <<m, f, in>>)
          [] OTHER               -> Call("breakCallbackAsync", <<m, f, in>>)

\* A promise job
RunJob(m, job) ==
    CASE job.k = "resume"      -> Call("Run", <<m, job.f, job>>)
      [] job.k = "all"         -> AllElement(m, job)
      [] job.k = "fromEntries" ->
            IF job.st = "ok" THEN Settle(m, job.p, "ok", Obj(FromEntries(job.val.v, NoVars)))
            ELSE Settle(m, job.p, job.st, Undef)
      [] job.k = "thenable"    -> Subscribe(m, job.i, Reaction("adopt", 0, job.p, 0))
      [] job.k = "adopt"       -> Settle(m, job.p, job.st, job.val)

\* The call of the operator fn of the evaluator with the arguments a
Call(fn, a) ==
    CASE fn = "execCommand"                    -> execCommand(a[1], a[2], a[3])
      [] fn = "EndLoop"                        -> EndLoop(a[1], a[2], a[3])
      [] fn = "BreakLoop"                      -> BreakLoop(a[1], a[2], a[3], a[4])
      [] fn = "ContextLoop"                    -> ContextLoop(a[1], a[2], a[3])
      [] fn = "OutCallback"                    -> OutCallback(a[1], a[2])
      [] fn = "OutLoop"                        -> OutLoop(a[1], a[2], a[3])
      [] fn = "ParamCallback"                  -> ParamCallback(a[1], a[2])
      [] fn = "ParamCheckValue"                -> ParamCheckValue(a[1], a[2])
      [] fn = "CallCommand"                    -> CallCommand(a[1], a[2], a[3])
      [] fn = "convertArray"                   -> convertArray(a[1], a[2], a[3])
      [] fn = "ConvertItems"                   -> ConvertItems(a[1], a[2], a[3], a[4])
      [] fn = "convertObjectFromEntities"      -> convertObjectFromEntities(a[1], a[2], a[3], a[4])
      [] fn = "convertSync"                    -> convertSync(a[1], a[2], a[3])
      [] fn = "ConvertRule"                    -> ConvertRule(a[1], a[2], a[3], a[4])
      [] fn = "exec"                           -> exec(a[1], a[2], a[3])
      [] fn = "CallFrame"                      -> CallFrame(a[1], a[2])
      [] fn = "execCommandAsync"               -> execCommandAsync(a[1], a[2], a[3])
      [] fn = "execAsync"                      -> execAsync(a[1], a[2], a[3])
      [] fn = "CallItems"                      -> CallItems(a[1], a[2], a[3], a[4])
      [] fn = "convertArrayAsync"              -> convertArrayAsync(a[1], a[2], a[3])
      [] fn = "CallEntries"                    -> CallEntries(a[1], a[2], a[3], a[4])
      [] fn = "convertObjectFromEntitiesAsync" -> convertObjectFromEntitiesAsync(a[1], a[2], a[3])
      [] fn = "ConvertLoop"                    -> ConvertLoop(a[1], a[2], a[3])
      [] fn = "convertAsync"                   -> convertAsync(a[1], a[2], a[3])
      [] fn = "isMathCallbackAsync"            -> isMathCallbackAsync(a[1], a[2], a[3])
      [] fn = "isVariableCallbackAsync"        -> isVariableCallbackAsync(a[1], a[2], a[3])
      [] fn = "VariableCheckValueAsync"        -> VariableCheckValueAsync(a[1], a[2], a[3])
      [] fn = "EndNext"                        -> EndNext(a[1], a[2])
      [] fn = "endCallbackAsync"               -> endCallbackAsync(a[1], a[2], a[3])
      [] fn = "BreakNext"                      -> BreakNext(a[1], a[2])
      [] fn = "breakCallbackAsync"             -> breakCallbackAsync(a[1], a[2], a[3])
      [] fn = "ContextNext"                    -> ContextNext(a[1], a[2])
      [] fn = "contextCallbackAsync"           -> contextCallbackAsync(a[1], a[2], a[3])
      [] fn = "OutNext"                        -> OutNext(a[1], a[2])
      [] fn = "outCallbackAsync"               -> outCallbackAsync(a[1], a[2], a[3])
      [] fn = "paramCallbackAsync"             -> paramCallbackAsync(a[1], a[2], a[3])
      [] fn = "Run"                            -> Run(a[1], a[2], a[3])

(***************************************************************************)
(* The engine as a state machine: a caller runs parse on a command, a      *)
(* scope of its own and a context; VARS lives on between the calls.        *)
(***************************************************************************)
vars == <<VARS, pc, call, result, callScope, frames, promises, microtasks, GLOBAL_RULES>>

\* The state of the async mode
engine == <<callScope, frames, promises, microtasks>>

\* The greatest depth of nested parentheses in a command
MaxNest == 9

\* The greatest number of operands of a chain of "||", "&&" or "??"
MaxChain == 3

Sp == Str(<<" ">>)

\* The texts that are joined with sep between them
RECURSIVE JoinTexts(_, _)
JoinTexts(parts, sep) ==
    IF Len(parts) = 1 THEN parts[1] ELSE parts[1] \o sep \o JoinTexts(Tail(parts), sep)

\* The expression inside n pairs of parentheses
RECURSIVE Nest(_, _)
Nest(e, n) == IF n = 0 THEN e ELSE Str(<<"(">>) \o Nest(e, n - 1) \o Str(<<")">>)

\* The key of a command rule
CommandKey(name) == (CHOOSE i \in 1..Len(COMMANDS) : COMMANDS[i].name = name)

VarX == Str(<<"$", "x">>)

NameX == Str(<<"x">>)

\* Expressions without operator
Atoms ==
    { Str(<<"1">>), Str(<<"0">>), Str(<<"null">>), Str(<<"undefined">>), Str(<<"a">>), VarX }

\* Literal operands of a chain
Operands == { Str(<<"0">>), Str(<<"1">>), Str(<<"null">>), Str(<<"undefined">>) }

\* Expressions stored with ">>"
Stored == { Str(<<"1">>), Str(<<"null">>), Str(<<"a">>) }

\* Expressions put in parentheses
Nested == { Str(<<"1">>), Str(<<"1", "+", "2">>), Str(<<"a", " ", "b">>) }

\* The scopes a caller passes: an empty one, and one with a key x of its own
CallerScopes == { NoVars, Put(NoVars, NameX, Num(2)) }

\* The contexts a caller passes
CallerContexts == { Null, Num(5) }

Input(shape, parts, command, scope, context) ==
    [shape |-> shape, parts |-> parts, command |-> command,
     scope |-> scope, context |-> context]

\* x, in each scope and context
AtomInputs ==
    { Input("atom", <<x>>, x, sc, cx) : x \in Atoms, sc \in CallerScopes, cx \in CallerContexts }

\* "x;" and "x; y" and ";x"
EndInputs ==
    { Input("x;", <<x>>, x \o Str(<<";">>), NoVars, Null) : x \in Atoms }
    \cup { Input("x; y", <<x, y>>, x \o Str(<<";", " ">>) \o y, NoVars, Null) :
             x \in Atoms, y \in Atoms }
    \cup { Input(";x", <<x>>, Str(<<";">>) \o x, NoVars, Null) : x \in Atoms }

\* "x | $context"
PipeInputs ==
    { Input("x | $context", <<x>>, x \o Str(<<" ", "|", " ", "$", "context">>), sc, cx) :
        x \in Atoms, sc \in CallerScopes, cx \in CallerContexts }

\* "v >> x" and "v >> x; $x"
OutInputs ==
    { Input("v >> x", <<v>>, v \o Str(<<" ", ">", ">", " ", "x">>), sc, Null) :
        v \in Stored, sc \in CallerScopes }
    \cup { Input("v >> x; $x", <<v>>,
                 v \o Str(<<" ", ">", ">", " ", "x", ";", " ", "$", "x">>), sc, Null) :
             v \in Stored, sc \in CallerScopes }

\* "a || b", "a && b && c", ...: the shape is the name of the rule
ChainInputs ==
    { Input(rule, parts,
            JoinTexts(parts, Sp \o COMMANDS[CommandKey(rule)].key \o Sp), NoVars, Null) :
        rule \in {"fail", "success", "nullish"},
        parts \in UNION { [1..n -> Operands] : n \in 2..MaxChain } }

\* "(e)", "((e))", ...: parts holds e, the shape tells the depth
NestInputs ==
    { Input("nest", <<e, Nest(e, n - 1)>>, Nest(e, n), NoVars, Null) :
        e \in Nested, n \in 1..MaxNest }

\* Left children of a chain nested in another
Piped == { Str(<<"1">>), Str(<<"null">>), Str(<<"undefined">>) }

\* "x | (y | $context)": a chain inside the second child of another
NestedPipeInputs ==
    { Input("x | (y | $context)", <<x, y>>,
            x \o Str(<<" ", "|", " ", "(">>) \o y
              \o Str(<<" ", "|", " ", "$", "context", ")">>), NoVars, cx) :
        x \in Piped, y \in Piped, cx \in CallerContexts }

\* "x | min": the second child calls the command min without a value, which
\* fails with PropertyRequired
FailingPipeInputs ==
    { Input("x | min", <<x>>, x \o Str(<<" ", "|", " ", "min">>), NoVars, cx) :
        x \in Piped, cx \in CallerContexts }

\* A quoted literal with the body s
Quoted(s) == Str(<<"\"">>) \o s \o Str(<<"\"">>)

VarY == Str(<<"$", "y">>)

NameY == Str(<<"y">>)

\* Values given to a command as a quoted literal or as a variable
Given ==
    { Quoted(Str(<<"a">>)), Quoted(Str(<<"-", "a">>)), Quoted(Str(<<"-", "-", "delim">>)),
      VarY }

\* The scopes of the callers of a command: y is a word, or a string that
\* starts with a dash
GivenScopes ==
    { Put(NoVars, NameY, StrV(Str(<<"b">>))), Put(NoVars, NameY, StrV(Str(<<"-", "a">>))) }

\* concat " " v
GivenInputs ==
    { Input("concat d v", <<v>>,
            Str(<<"concat", " ">>) \o Quoted(Sp) \o Sp \o v, sc, Null) :
        v \in Given, sc \in GivenScopes }

\* Elements that the normalizer extracts: quoted literals, a signed number and
\* a brace group
Extracted ==
    { Quoted(Str(<<"-", "1">>)), Quoted(Str(<<"a">>)), Quoted(Str(<<"(", "1", ")">>)),
      Str(<<"-", "1">>), Str(<<"(", "1", ")">>) }

\* "[a,b]" for two extracted elements
ExtractInputs ==
    { Input("[a,b]", <<a, b>>, Str(<<"[">>) \o a \o Str(<<",">>) \o b \o Str(<<"]">>),
            NoVars, Null) : a \in Extracted, b \in Extracted }

ParseInputs ==
    AtomInputs \cup EndInputs \cup PipeInputs \cup NestedPipeInputs \cup OutInputs
      \cup ChainInputs \cup NestInputs \cup ExtractInputs \cup FailingPipeInputs
      \cup GivenInputs

NoCall == [op |-> "none"]

NoResult == NewState(NoVars, NoVars)

Init ==
    /\ VARS = NoVars
    /\ pc = "idle"
    /\ call = NoCall
    /\ result = NoResult
    /\ callScope = NoVars
    /\ frames = <<>>
    /\ promises = <<>>
    /\ microtasks = <<>>
    /\ GLOBAL_RULES = LoadedRules

\* parse(command, scope, context), sync: VARS keeps what the command stored
Parse ==
    /\ pc = "idle"
    /\ \E inp \in ParseInputs :
          /\ call' = [op |-> "parse", shape |-> inp.shape, parts |-> inp.parts,
                      command |-> inp.command, scope |-> inp.scope,
                      context |-> inp.context, vars |-> VARS]
          /\ result' = parse(inp.command, inp.scope, inp.context, VARS)
          /\ VARS' = result'.vars
    /\ pc' = "done"
    /\ UNCHANGED <<engine, GLOBAL_RULES>>

\* The caller takes the outcome; the engine is ready for the next call
Finish ==
    /\ pc = "done"
    /\ pc' = "idle"
    /\ call' = NoCall
    /\ result' = NoResult
    /\ callScope' = NoVars
    /\ frames' = <<>>
    /\ promises' = <<>>
    /\ microtasks' = <<>>
    /\ UNCHANGED <<VARS, GLOBAL_RULES>>

Next == Parse \/ Finish

Spec == Init /\ [][Next]_vars

(***************************************************************************)
(* The engine in async mode: parse returns a promise, and the promise jobs *)
(* run one by one until none is left.                                      *)
(***************************************************************************)
\* Items of an array literal and arguments of a list
Siblings ==
    { Str(<<"1">>), VarX, Str(<<"(", "1", ">", ">", "x", ")">>),
      Str(<<"(", "2", ">", ">", "x", ")">>),
      Str(<<"(", "1", "|", "$", "context", ")">>),
      Str(<<"(", "2", "|", "$", "context", ")">>) }

\* Commands without siblings
Sequential ==
    { Str(<<"1">>), VarX, Str(<<"a">>),
      Str(<<"1", ">", ">", "x", ";", "$", "x">>),
      Str(<<"2", ">", ">", "x", ";", "$", "x">>),
      Str(<<"0", " ", "|", "|", " ", "$", "x">>),
      Str(<<"$", "x", " ", "?", "?", " ", "2">>),
      Str(<<"1", " ", "|", " ", "$", "context">>),
      Str(<<"1", "+", "2", "*", "3">>),
      Str(<<"1", "*", "a">>) }

\* "[e1,e2]" and "a e1 e2", and the commands without siblings
AsyncInputs ==
    { Input("array", <<e1, e2>>, Str(<<"[">>) \o e1 \o Str(<<",">>) \o e2 \o Str(<<"]">>),
            NoVars, Null) : e1 \in Siblings, e2 \in Siblings }
    \cup { Input("list", <<e1, e2>>, Str(<<"a", " ">>) \o e1 \o Sp \o e2, NoVars, Null) :
             e1 \in Siblings, e2 \in Siblings }
    \cup { Input("sequential", <<e>>, e, NoVars, Null) : e \in Sequential }

\* The machine the state holds
Machine(jobs) ==
    [scope |-> callScope, vars |-> VARS, frames |-> frames, promises |-> promises,
     queue |-> jobs]

\* parse(command, scope, context, true): the command is split and the first async
\* function runs up to its first await
ParseAsync ==
    /\ pc = "idle"
    /\ \E inp \in AsyncInputs :
          LET Called(c) ==
                  /\ call' = [op |-> "parseAsync", shape |-> inp.shape,
                              parts |-> inp.parts, command |-> inp.command,
                              scope |-> inp.scope, context |-> inp.context,
                              vars |-> VARS, promise |-> c.p]
                  /\ callScope' = c.m.scope
                  /\ VARS' = c.m.vars
                  /\ frames' = c.m.frames
                  /\ promises' = c.m.promises
                  /\ microtasks' = c.m.queue
          IN  Called(parseAsync(inp.command, inp.scope, inp.context, VARS))
    /\ pc' = "running"
    /\ UNCHANGED <<result, GLOBAL_RULES>>

\* The first promise job of the queue runs
RunMicrotask ==
    /\ pc = "running"
    /\ microtasks # <<>>
    /\ LET Ran(m) ==
               /\ callScope' = m.scope
               /\ VARS' = m.vars
               /\ frames' = m.frames
               /\ promises' = m.promises
               /\ microtasks' = m.queue
       IN  Ran(RunJob(Machine(Tail(microtasks)), Head(microtasks)))
    /\ UNCHANGED <<pc, call, result, GLOBAL_RULES>>

\* No job is left: the caller has the outcome of the promise that parse returned
Settled ==
    /\ pc = "running"
    /\ microtasks = <<>>
    /\ LET p == promises[call.promise]
       IN  result' = [scope |-> callScope, vars |-> VARS,
                      err |-> IF p.st = "ok" THEN "" ELSE p.st, val |-> p.val,
                      log |-> <<>>]
    /\ pc' = "done"
    /\ UNCHANGED <<VARS, call, engine, GLOBAL_RULES>>

NextAsync == ParseAsync \/ RunMicrotask \/ Settled \/ Finish

SpecAsync == Init /\ [][NextAsync]_vars

(***************************************************************************)
(* Properties                                                              *)
(***************************************************************************)
\* The outcome of parse on the i-th part of the call at hand, with the inputs of the call
PartOutcome(i) == parse(call.parts[i], call.scope, call.context, call.vars)

Parsed(shapes) == pc = "done" /\ call.op = "parse" /\ call.shape \in shapes

\* C1, as stated: ";" returns the result of the last non-empty child, so "x;"
\* returns what "x" returns and "x; y" returns what "y" returns.
C1_EndIgnoresEmpty ==
    Parsed({"x;", "x; y"}) =>
        result.val = PartOutcome(Len(call.parts)).val

\* C1, amended: ";" runs its children in source order and returns the result of
\* the last child, an empty child counting as undefined: "x;" returns undefined,
\* "x; y" and ";x" return what their last child returns, and every non-empty
\* child is run, in order.
C1_EndReturnsLastChild ==
    Parsed({"x;", "x; y", ";x"}) =>
        /\ result.err = ""
        /\ call.shape = "x;" =>
              result.val = Undef /\ result.log = PartOutcome(1).log
        /\ call.shape = ";x" =>
              result.val = PartOutcome(1).val /\ result.log = PartOutcome(1).log
        /\ call.shape = "x; y" =>
              /\ result.val = PartOutcome(2).val
              /\ result.log = PartOutcome(1).log \o PartOutcome(2).log

\* C1: a command "x;" whose x alone returns a value has returned undefined
C1_Witness ==
    /\ Parsed({"x;"})
    /\ result.val = Undef
    /\ PartOutcome(1).val # Undef

\* The outcome of parse("$context") with the inputs of the call at hand
ContextOutcome ==
    parse(Str(<<"$", "context">>), call.scope, call.context, call.vars)

C3_OutRoundTrip ==
    Parsed({"v >> x; $x"}) => result.val = PartOutcome(1).val

\* C3, amended: "v >> x" returns the value of v and stores it in the global
\* variable x; "v >> x; $x" then returns what "$x" reads: the caller scope's own
\* x when the scope has one that is not null, and otherwise the value of v, or
\* undefined when v evaluates to null.
C3_OutStoresGlobal ==
    Parsed({"v >> x", "v >> x; $x"}) =>
        /\ result.err = ""
        /\ Get(VARS, NameX) = PartOutcome(1).val
        /\ call.shape = "v >> x" => result.val = PartOutcome(1).val
        /\ call.shape = "v >> x; $x" =>
              result.val = IF ~IsNullish(Get(call.scope, NameX))
                           THEN Get(call.scope, NameX)
                           ELSE Coalesce(PartOutcome(1).val, Undef)

\* C3: "v >> x; $x" has returned the value of v, which replaced another value
\* of the global variable x
C3_Witness ==
    /\ Parsed({"v >> x; $x"})
    /\ result.val = PartOutcome(1).val
    /\ ~IsNullish(result.val)
    /\ Get(call.vars, NameX) # result.val
    /\ ~IsNullish(Get(call.vars, NameX))

\* The value of the i-th operand of the chain at hand
OperandValue(i) == PartOutcome(i).val

\* Whether a value decides a chain: "||" at a truthy value, "&&" at a falsy one,
\* "??" at one that is neither null nor undefined
Decides(chain, v) ==
    \/ chain = "fail" /\ Truthy(v)
    \/ chain = "success" /\ ~Truthy(v)
    \/ chain = "nullish" /\ v # Null /\ v # Undef

\* The deciding child of the chain at hand: the first that decides, or the last
DecidingChild ==
    LET n == Len(call.parts)
        deciding == { i \in 1..n : Decides(call.shape, OperandValue(i)) }
    IN  IF deciding = {} THEN n
        ELSE CHOOSE i \in deciding : \A k \in deciding : i <= k

\* C4: a chain of "||", "&&" or "??" executes its children left to right up to
\* the deciding child and no further, and returns the deciding child's result,
\* or the last child's when none decides; so "a ?? b" executes b exactly when a
\* is null or undefined.
C4_ChainStopsAtDecidingChild ==
    Parsed({"fail", "success", "nullish"}) =>
        /\ result.err = ""
        /\ result.val = OperandValue(DecidingChild)
        /\ result.log = [i \in 1..DecidingChild |-> StrV(call.parts[i])]

\* C4: a chain of three children has stopped at its second child
C4_Witness ==
    /\ Parsed({"fail", "success", "nullish"})
    /\ Len(call.parts) = 3
    /\ DecidingChild = 2
    /\ Len(result.log) = 2

\* C5: at any depth of nested parentheses, "(e)" returns the value that "e"
\* returns.
C5_ParenthesesNeutral ==
    Parsed({"nest"}) => result.val = PartOutcome(1).val

\* The outcome of parse in sync mode on the inputs of the call at hand
SyncOutcome == parse(call.command, call.scope, call.context, call.vars)

\* C6: the scope and VARS holding no deferred value and the commands being
\* synchronous, parse in async mode resolves to the value that parse in sync
\* mode returns, and leaves the same variables, also when an item of an array
\* literal or an argument of a list reads what an earlier sibling stored with ">>".
C6_SyncAsyncAgreement ==
    (pc = "done" /\ call.op = "parseAsync") =>
        /\ result.err = SyncOutcome.err
        /\ result.val = SyncOutcome.val
        /\ VARS = SyncOutcome.vars
(***************************************************************************)
(* Command dispatch: execFn on a command of the storage and a list of      *)
(* tokens, the converted words that follow the name of the command.        *)
(***************************************************************************)
\* The command "min" whose descriptor is required and not variadic
MinOneCommand ==
    [name  |-> Str(<<"min">>),
     flags |-> NoFlags,
     args  |-> << ArgDesc(Str(<<"values">>), FALSE, TRUE, Undef) >>]

\* A command with a required descriptor ahead of an optional one
PairCommand ==
    [name  |-> Str(<<"pair">>),
     flags |-> NoFlags,
     args  |-> << ArgDesc(Str(<<"first">>), FALSE, TRUE, Undef),
                  ArgDesc(Str(<<"second">>), FALSE, FALSE, Undef) >>]

\* A command whose mode descriptor is the last declared one
ModeLastCommand ==
    [name  |-> Str(<<"tag">>),
     flags |-> (Ch("a") :> 1) @@ (Ch("b") :> 2),
     args  |-> << ArgDesc(Str(<<"x">>), FALSE, FALSE, Undef),
                  ArgDesc(ARG_MODE, FALSE, FALSE, Undef) >>]

\* The compiled command, as addCommand stores it
Compiled(command) == addCommand(NoVars, command)[command.name]

Long(words) == StrV(Str(<<"-", "-">>) \o words)

Short(letters) == StrV(Str(<<"-">>) \o Str(letters))

TokenX == StrV(Str(<<"x">>))

\* The tokens a command is called with: plain ones, long options (one of them
\* of no descriptor) and runs of flags (one of them with an unknown letter)
Tokens(command) ==
    CASE command = ConcatCommand ->
            { TokenX, Num(1), Null, Long(Str(<<"delim">>)), Long(Str(<<"args">>)),
              Short(<<"a">>), Short(<<"c", "a">>), Short(<<"P">>) }
      [] command \in {MinCommand, MinOneCommand} ->
            { TokenX, Num(1), Null, Long(Str(<<"values">>)), Short(<<"a">>) }
      [] command = RandomCommand -> { TokenX, Long(Str(<<"values">>)), Short(<<"a">>) }
      [] command = AsyncCommand ->
            { TokenX, Bool(TRUE), Long(Str(<<"as", "-", "array">>)),
              Long(Str(<<"context">>)), Long(Str(<<"is", "-", "array">>)), Short(<<"P">>) }
      [] command = PairCommand ->
            { TokenX, Num(1), Long(Str(<<"first">>)), Long(Str(<<"second">>)) }
      [] command = ModeLastCommand -> { TokenX, Short(<<"a">>), Short(<<"b">>) }

\* The greatest number of tokens of a call
MaxTokens == 4

ExecFnCommands ==
    { ConcatCommand, MinCommand, MinOneCommand, RandomCommand, AsyncCommand, PairCommand,
      ModeLastCommand }

\* The lists of at most n elements of S
ListsUpTo(S, n) == UNION { [1..k -> S] : k \in 0..n }

\* execFn(fn, args, scope) for a command and a list of tokens
ExecFn ==
    /\ pc = "idle"
    /\ \E command \in ExecFnCommands :
          \E args \in ListsUpTo(Tokens(command), MaxTokens) :
             /\ call' = [op |-> "execFn", command |-> Compiled(command), args |-> args]
             /\ result' = execFn(Compiled(command), args)
    /\ pc' = "done"
    /\ UNCHANGED <<VARS, engine, GLOBAL_RULES>>

NextExecFn == ExecFn \/ Finish

SpecExecFn == Init /\ [][NextExecFn]_vars

(***************************************************************************)
(* Properties of command dispatch                                          *)
(***************************************************************************)
\* execFn has returned or thrown
Called == pc = "done" /\ call.op = "execFn"

\* A token that starts with a dash, one that starts with two, and one with none
Dashed(token) == token.t = "str" /\ Len(token.v) >= 1 /\ token.v[1].c = "-"

DoubleDashed(token) == Dashed(token) /\ Len(token.v) >= 2 /\ token.v[2].c = "-"

Plain(token) == ~Dashed(token)

\* The descriptors of a command that take one plain token each: all but scope,
\* mode and a variadic one (1-based)
Positional(command) ==
    {i \in 1..Len(command.args) :
        /\ command.args[i].name \notin {ARG_SCOPE, ARG_MODE}
        /\ ~command.args[i].variadic}

\* The j-th of them
PositionalAt(command, j) ==
    CHOOSE i \in Positional(command) :
        Cardinality({k \in Positional(command) : k < i}) = j - 1

LastIsVariadic(command) ==
    Len(command.args) >= 1 /\ command.args[Len(command.args)].variadic

AllPlain(args) == \A i \in 1..Len(args) : Plain(args[i])

\* C7, as stated: a command whose last descriptor is variadic, invoked with
\* plain tokens only, passes all of them, in order, to the variadic slot.
C7_VariadicTakesAll ==
    (Called /\ LastIsVariadic(call.command) /\ Len(call.args) >= 1 /\ AllPlain(call.args)) =>
        /\ result.invoked
        /\ result.last = call.args

\* C7, amended: the plain tokens first fill, one each and in order, the
\* positional descriptors ahead of the variadic one (a null token leaving the
\* default); the tokens after those are the variadic slot, in their order.
C7_VariadicTakesRest ==
    (Called /\ LastIsVariadic(call.command) /\ Len(call.args) >= 1 /\ AllPlain(call.args)) =>
        LET k == Cardinality(Positional(call.command))
            n == Len(call.args)
        IN  /\ result.err = ""
            /\ result.invoked
            /\ result.last = SubSeq(call.args, k + 1, n)
            /\ \A j \in 1..k :
                  result.cb[PositionalAt(call.command, j)] =
                     Coalesce(IF j <= n THEN call.args[j] ELSE Undef,
                              call.command.args[PositionalAt(call.command, j)].default)

\* C7: concat has been invoked with three plain tokens; the first is its
\* delimiter and the two others, which differ, are the variadic slot
C7_Witness ==
    /\ Called
    /\ call.command.name = ConcatCommand.name
    /\ Len(call.args) = 3
    /\ AllPlain(call.args)
    /\ result.invoked
    /\ result.cb[3] = call.args[1]
    /\ result.last = Tail(call.args)
    /\ result.last[1] # result.last[2]

\* The name of the descriptor a long option stands for
OptionName(token) == convertToCamelCase(SubSeq(token.v, 3, Len(token.v)))

\* The letters of a run of flags
Letters(token) == Tail(token.v)

\* A long option of a descriptor of the command, or a run of flags of its table
Known(command, token) ==
    IF DoubleDashed(token) THEN OptionName(token) \in DOMAIN command.namedArgs
    ELSE /\ ARG_MODE \in DOMAIN command.namedArgs
         /\ \A k \in 1..Len(Letters(token)) : Letters(token)[k] \in DOMAIN command.flags

\* Every option ahead of the j-th token is a known one
KnownBefore(command, args, j) ==
    \A i \in 1..(j - 1) : Dashed(args[i]) => Known(command, args[i])

\* The j-th token, a plain one, cannot be the value of a long option: no long
\* option is ahead of it, or the nearest one stands for a descriptor that is
\* not variadic and has a plain token between itself and the j-th
NotAValue(command, args, j) ==
    LET longs == {i \in 1..(j - 1) : DoubleDashed(args[i])}
        i     == CHOOSE i \in longs : \A k \in longs : k <= i
    IN  \/ longs = {}
        \/ /\ ~command.namedArgs[OptionName(args[i])].variadic
           /\ \E k \in (i + 1)..(j - 1) : Plain(args[k])

\* C8: once a long option or a run of flags has appeared, a later plain token
\* that is not the value of a pending long option makes execFn fail with
\* WrongArgumentPosition, and the callback is not invoked.
C8_PlainAfterOptionFails ==
    Called =>
        \A j \in 1..Len(call.args) :
            ( /\ Plain(call.args[j])
              /\ \E i \in 1..(j - 1) : Dashed(call.args[i])
              /\ KnownBefore(call.command, call.args, j)
              /\ NotAValue(call.command, call.args, j) ) =>
                 /\ result.err = "WrongArgumentPosition"
                 /\ ~result.invoked

\* The variadic descriptor has taken a plain token ahead of the j-th token, by
\* its position: no long option is ahead, and more plain tokens than the
\* positional descriptors take
CollectingByPosition(command, args, j) ==
    /\ LastIsVariadic(command)
    /\ \A i \in 1..(j - 1) : ~DoubleDashed(args[i])
    /\ Cardinality({i \in 1..(j - 1) : Plain(args[i])}) > Cardinality(Positional(command))

\* The variadic descriptor has taken a plain token ahead of the j-th token as
\* a value of its own long option
CollectingByName(command, args, j) ==
    /\ LastIsVariadic(command)
    /\ \E i \in 1..(j - 2) :
          /\ DoubleDashed(args[i])
          /\ OptionName(args[i]) = command.args[Len(command.args)].name
          /\ Plain(args[i + 1])
          /\ \A k \in 1..(i - 1) : ~Plain(args[k])

\* C9, as stated: once the variadic descriptor has begun collecting values, in
\* either way, any later long option or run of flags makes execFn fail with
\* WrongArgumentPosition.
C9_OptionAfterVariadicFails ==
    Called =>
        \A j \in 1..Len(call.args) :
            ( /\ Dashed(call.args[j])
              /\ KnownBefore(call.command, call.args, j)
              /\ \/ CollectingByPosition(call.command, call.args, j)
                 \/ CollectingByName(call.command, call.args, j) ) =>
                 /\ result.err = "WrongArgumentPosition"
                 /\ ~result.invoked

\* C9, amended: once the variadic descriptor has taken a plain token by its
\* position, any later long option or run of flags, known or not, makes execFn
\* fail with WrongArgumentPosition, and the callback is not invoked.
C9_OptionAfterPositionalVariadicFails ==
    Called =>
        \A j \in 1..Len(call.args) :
            ( /\ Dashed(call.args[j])
              /\ KnownBefore(call.command, call.args, j)
              /\ CollectingByPosition(call.command, call.args, j) ) =>
                 /\ result.err = "WrongArgumentPosition"
                 /\ ~result.invoked

\* C9: concat has failed on a run of flags that follows two plain tokens
C9_Witness ==
    /\ Called
    /\ call.command.name = ConcatCommand.name
    /\ Len(call.args) = 3
    /\ Plain(call.args[1]) /\ Plain(call.args[2])
    /\ Dashed(call.args[3]) /\ ~DoubleDashed(call.args[3])
    /\ Known(call.command, call.args[3])
    /\ result.err = "WrongArgumentPosition"
    /\ ~result.invoked

\* The runs of flags of a call, by their place among the tokens
Runs(args) == {i \in 1..Len(args) : Dashed(args[i]) /\ ~DoubleDashed(args[i])}

\* The letters seen in all the runs of flags of a call
LettersSeen(args) == UNION { {Letters(args[i])[k] : k \in 1..Len(Letters(args[i]))} : i \in Runs(args) }

\* The bitwise OR of the weights that a table of flags gives to a set of letters
RECURSIVE OrOfWeights(_, _)
OrOfWeights(flags, letters) ==
    IF letters = {} THEN 0
    ELSE LET l == CHOOSE l \in letters : TRUE
         IN  BitOr(flags[l], OrOfWeights(flags, letters \ {l}))

\* C10: the mode passed to the callback of a command with a mode descriptor is
\* the bitwise OR of the weights of every letter seen in all runs of flags of
\* the input, whatever their order, grouping and repetition; with no run of
\* flags it is the default of the mode descriptor, or 0 without one; and a
\* callback is not invoked on an input with an unknown letter.
C10_ModeIsOrOfFlags ==
    (Called /\ ARG_MODE \in DOMAIN call.command.namedArgs /\ result.invoked) =>
        LET mode == call.command.namedArgs[ARG_MODE]
        IN  /\ LettersSeen(call.args) \subseteq DOMAIN call.command.flags
            /\ result.cb[mode.ind + 1] =
                  IF Runs(call.args) = {} THEN Coalesce(mode.default, Num(0))
                  ELSE Num(OrOfWeights(call.command.flags, LettersSeen(call.args)))

\* The descriptors of a command that are required and take tokens (1-based)
Required(command) ==
    {i \in 1..Len(command.args) :
        command.args[i].required /\ command.args[i].name \notin {ARG_SCOPE, ARG_MODE}}

\* The descriptor gets a value that is not null from its long option,
\* somewhere in the input
GivenByName(command, args, i) ==
    \E k \in 1..(Len(args) - 1) :
        /\ DoubleDashed(args[k])
        /\ OptionName(args[k]) = command.args[i].name
        /\ Plain(args[k + 1])
        /\ ~IsNullish(args[k + 1])

\* C11: a required descriptor that receives its value from its long option
\* anywhere in the input does not make execFn fail with PropertyRequired.
C11_RequiredGivenByName ==
    (Called /\ \A i \in Required(call.command) : GivenByName(call.command, call.args, i)) =>
        result.err # "PropertyRequired"

(***************************************************************************)
(* The variable store: callers read with getVar and write with setVar; the *)
(* store lives on between the calls.  A promise stands for a deferred      *)
(* value, by what it resolves to.                                          *)
(***************************************************************************)
KeyA == Key("a")

KeyB == Key("b")

ObjOf(key, value) == Obj(Put(NoVars, key, value))

\* The greatest number of segments of a path
MaxPath == 3

\* The segments of the paths: x, then a and b in turns
Segment(i) == IF i = 1 THEN StrV(NameX) ELSE IF i % 2 = 0 THEN StrV(KeyA) ELSE StrV(KeyB)

\* The names: x, and the paths x.a, x.a.b, ...
VarNames == { StrV(NameX) } \cup { Arr([i \in 1..n |-> Segment(i)]) : n \in 2..MaxPath }

\* The values written to a whole variable, and those written at the end of a path
Structures ==
    { Null, Num(1), ObjOf(KeyA, Null), ObjOf(KeyA, ObjOf(KeyB, Num(1))),
      ObjOf(KeyA, Promise(ObjOf(KeyB, Num(1)))), ObjOf(KeyA, Promise(Null)),
      Promise(ObjOf(KeyA, ObjOf(KeyB, Num(1)))), Promise(ObjOf(KeyA, Null)), Promise(Null) }

Leaves == { Null, Num(3) }

\* The scopes of the readers
ReaderScopes ==
    { NoVars, Put(NoVars, NameX, Null), Put(NoVars, NameX, Num(2)),
      Put(NoVars, NameX, ObjOf(KeyA, ObjOf(KeyB, Num(2)))),
      Put(NoVars, NameX, Promise(ObjOf(KeyA, Null))) }

Defaults == { Undef, Num(9) }

\* setVar(name, value)
SetVar ==
    /\ pc = "idle"
    /\ \E name \in VarNames :
          \E value \in (IF isString(name) THEN Structures ELSE Leaves) :
             /\ call' = [op |-> "setVar", name |-> name, value |-> value, vars |-> VARS]
             /\ result' = setVar(name, value, VARS)
             /\ VARS' = result'.vars
    /\ pc' = "done"
    /\ UNCHANGED <<engine, GLOBAL_RULES>>

\* getVar(name, scope, defaultValue)
GetVar ==
    /\ pc = "idle"
    /\ \E name \in VarNames, scope \in ReaderScopes, defaultValue \in Defaults :
          /\ call' = [op |-> "getVar", name |-> name, scope |-> scope,
                      default |-> defaultValue, vars |-> VARS]
          /\ result' = getVar(name, scope, VARS, defaultValue)
    /\ pc' = "done"
    /\ UNCHANGED <<VARS, engine, GLOBAL_RULES>>

NextVars == SetVar \/ GetVar \/ Finish

SpecVars == Init /\ [][NextVars]_vars

\* What the two tiers hold for a name: the scope first, the store when the
\* scope holds nothing or null, the default when neither holds a value
TwoTier(n, scope, store, defaultValue) ==
    IF ~IsNullish(Get(scope, n)) THEN Get(scope, n)
    ELSE IF ~IsNullish(Get(store, n)) THEN Get(store, n)
    ELSE defaultValue

Reads == pc = "done" /\ call.op = "getVar"

Writes == pc = "done" /\ call.op = "setVar"

\* C12: a read of a simple name yields the scope's value, else the store's,
\* else the default, so that a non-null local value shadows the global one;
\* and after any write to the store, a scope that shadows the name still
\* reads its own value.
C12_TwoTierLookup ==
    /\ (Reads /\ isString(call.name))
          => /\ result.err = ""
             /\ result.val = TwoTier(call.name.v, call.scope, VARS, call.default)
    /\ Writes
          => \A scope \in ReaderScopes, defaultValue \in Defaults :
                ~IsNullish(Get(scope, NameX))
                   => getVar(StrV(NameX), scope, VARS, defaultValue).val = Get(scope, NameX)

\* A read of x where the scope and the store hold different values
C12_Witness ==
    /\ Reads
    /\ call.name = StrV(NameX)
    /\ ~IsNullish(Get(call.scope, NameX))
    /\ ~IsNullish(Get(VARS, NameX))
    /\ Get(VARS, NameX) # Get(call.scope, NameX)
    /\ result.val = Get(call.scope, NameX)

\* What a deferred value resolves to; any other value is itself
Resolved(x) == IF isPromise(x) THEN x.v ELSE x

\* The synchronous traversal of the resolved structure: undefined from the
\* first null or undefined link on
RECURSIVE ResolvedWalk(_, _)
ResolvedWalk(x, keys) ==
    IF IsNullish(Resolved(x)) THEN Undef
    ELSE IF keys = <<>> THEN Resolved(x)
    ELSE ResolvedWalk(PropGet(Resolved(x), keys[1]), Tail(keys))

\* Whether the traversal reaches a deferred value before it ends
RECURSIVE MeetsDeferred(_, _)
MeetsDeferred(x, keys) ==
    \/ isPromise(x)
    \/ /\ keys # <<>>
       /\ ~IsNullish(x)
       /\ MeetsDeferred(PropGet(x, keys[1]), Tail(keys))

ReadsPath == Reads /\ isArray(call.name) /\ call.default = Undef

PathHead == TwoTier(call.name.v[1].v, call.scope, VARS, Undef)

PathKeys == [i \in 1..(Len(call.name.v) - 1) |-> call.name.v[i + 1]]

\* C13: a read of a dotted path without a default never raises; it yields
\* what the synchronous traversal of the resolved structure yields, which
\* is undefined from the first null or undefined link on, and yields it as
\* a deferred value exactly when the traversal reaches a deferred value.
C13_PathReadNeverRaises ==
    ReadsPath
       => /\ result.err = ""
          /\ result.val = IF MeetsDeferred(PathHead, PathKeys)
                          THEN Promise(ResolvedWalk(PathHead, PathKeys))
                          ELSE ResolvedWalk(PathHead, PathKeys)

\* A read of x.a.b where x.a is deferred and resolves to null
C13_Witness ==
    /\ ReadsPath
    /\ Len(PathKeys) = 2
    /\ ~isPromise(PathHead)
    /\ ~IsNullish(PathHead)
    /\ isPromise(PropGet(PathHead, PathKeys[1]))
    /\ IsNullish(PropGet(PathHead, PathKeys[1]).v)
    /\ result.val = Promise(Undef)

\* The value that the first k segments of a path lead to in the store
RECURSIVE SegmentValue(_, _, _)
SegmentValue(store, path, k) ==
    IF k = 1 THEN Get(store, KeyOf(path[1]))
    ELSE PropGet(SegmentValue(store, path, k - 1), path[k])

\* The head or an intermediate segment of the path is a deferred value
DeferredSegment(store, path) ==
    \E k \in 1..(Len(path) - 1) : isPromise(SegmentValue(store, path, k))

\* C14: a write through a path whose head or whose intermediate segment,
\* the last one before the assigned key included, is a deferred value fails
\* with PropertyTypeMismatch and leaves the store as it was.
C14_WriteThroughDeferredFails ==
    (Writes /\ isArray(call.name) /\ DeferredSegment(call.vars, call.name.v))
       => /\ result.err = "PropertyTypeMismatch"
          /\ VARS = call.vars

(***************************************************************************)
(* The rule registry: plugins register rules, one or several at a time,    *)
(* and the engine iterates the rules of a category.                        *)
(***************************************************************************)
\* The greatest number of rules registered after the engine is loaded
MaxRules == 3

\* The names of the rules registered: the n-th rule registered takes the n-th
\* name of its category, so that a rule tells when and where it was registered
RuleNames ==
    [category \in {"math", "template"} |->
        IF category = "math" THEN <<"m1", "m2", "m3", "m4", "m5">>
        ELSE <<"t1", "t2", "t3", "t4", "t5">>]

RuleOrders == { <<>>, <<-1>>, <<0>>, <<1>> }

\* Every rule of the registry, category by category
AllRules(registry) ==
    UNION { { registry[c][i] : i \in 1..Len(registry[c]) } : c \in DOMAIN registry }

\* The number of rules registered after the engine is loaded
Added(registry) == Cardinality(AllRules(registry)) - Cardinality(AllRules(LoadedRules))

NewRule(category, n, order) == [name |-> RuleNames[category][n], key |-> <<>>, order |-> order]

\* registerRule(category, rule)
RegisterRule ==
    /\ pc = "idle"
    /\ Added(GLOBAL_RULES) < MaxRules
    /\ \E category \in DOMAIN RuleNames, order \in RuleOrders :
          LET rule == NewRule(category, Added(GLOBAL_RULES) + 1, order)
          IN  /\ call' = [op |-> "registerRule", category |-> category, rules |-> <<rule>>]
              /\ GLOBAL_RULES' = Registered(GLOBAL_RULES, category, <<rule>>)
    /\ result' = NoResult
    /\ pc' = "done"
    /\ UNCHANGED <<VARS, engine>>

\* registerRules(category, rules), with two rules
RegisterRules ==
    /\ pc = "idle"
    /\ Added(GLOBAL_RULES) + 1 < MaxRules
    /\ \E category \in DOMAIN RuleNames, o1 \in RuleOrders, o2 \in RuleOrders :
          LET rules == << NewRule(category, Added(GLOBAL_RULES) + 1, o1),
                          NewRule(category, Added(GLOBAL_RULES) + 2, o2) >>
          IN  /\ call' = [op |-> "registerRules", category |-> category, rules |-> rules]
              /\ GLOBAL_RULES' = Registered(GLOBAL_RULES, category, rules)
    /\ result' = NoResult
    /\ pc' = "done"
    /\ UNCHANGED <<VARS, engine>>

\* getRulesByCategory(category), iterated
GetRulesByCategory ==
    /\ pc = "idle"
    /\ \E category \in DOMAIN LoadedRules \cup DOMAIN RuleNames :
          /\ call' = [op |-> "getRulesByCategory", category |-> category]
          /\ result' = [err |-> "", val |-> getRulesByCategory(GLOBAL_RULES, category)]
    /\ pc' = "done"
    /\ UNCHANGED <<VARS, engine, GLOBAL_RULES>>

NextRules == RegisterRule \/ RegisterRules \/ GetRulesByCategory \/ Finish

SpecRules == Init /\ [][NextRules]_vars

RuleCategories == DOMAIN LoadedRules \cup DOMAIN RuleNames

\* The rules that the plugin registers in a category, in its order
PluginRules(category) ==
    CASE category = "parse"   -> PluginParseRules
      [] category = "command" -> PluginCommandRules
      [] category = "math"    -> PluginMathRules
      [] category = "convert" -> PluginConvertRules
      [] category = "template" -> PluginTemplateRules \o ExtJsTemplateRules
      [] OTHER                -> <<>>

\* When a rule was registered in a category, counted from 1; 0 when it never was
RegisteredAt(category, rule) ==
    LET plugin == PluginRules(category)
        names  == IF category \in DOMAIN RuleNames THEN RuleNames[category] ELSE <<>>
    IN  IF \E i \in 1..Len(plugin) : plugin[i] = rule
        THEN CHOOSE i \in 1..Len(plugin) : plugin[i] = rule
        ELSE IF \E n \in 1..Len(names) : names[n] = rule.name
        THEN Len(plugin) + (CHOOSE n \in 1..Len(names) : names[n] = rule.name)
        ELSE 0

\* C15: whatever was registered, the rules that the iteration of a category
\* yields were all registered in that category, stand in ascending order,
\* a missing order counting as 0, and rules of equal order stand in the
\* order of their registration.
C15_RegistryOrdered ==
    \A category \in RuleCategories :
       LET list == getRulesByCategory(GLOBAL_RULES, category)
       IN  /\ \A i \in 1..Len(list) : RegisteredAt(category, list[i]) > 0
           /\ \A i \in 1..Len(list) : \A j \in (i + 1)..Len(list) :
                 \/ OrderOf(list[i]) < OrderOf(list[j])
                 \/ /\ OrderOf(list[i]) = OrderOf(list[j])
                    /\ RegisteredAt(category, list[i]) < RegisteredAt(category, list[j])

\* Two rules registered in the math category, one without an order and then
\* one of order 0, stand after the plugin's rules, and a third rule stands
\* in the template category, among the rules of the plugins
C15_Witness ==
    /\ pc = "done"
    /\ call.op \in {"registerRule", "registerRules"}
    /\ Len(getRulesByCategory(GLOBAL_RULES, "template")) = Len(TEMPLATE) + 1
    /\ LET list == getRulesByCategory(GLOBAL_RULES, "math")
       IN  /\ Len(list) = Len(PluginMathRules) + 2
           /\ list[Len(list) - 1].order = <<>>
           /\ list[Len(list)].order = <<0>>

(***************************************************************************)
(* Templates of type "js".  A template is a text of lexemes: the line      *)
(* terminator, the space, the marker //#xsh of a line directive, the words *)
(* of a command, and the constants, each spelled as its prefix, its name   *)
(* and its closing "__".  The templates hold no block directive and no     *)
(* inline command, so that the rules "template" and "inlineCommand" find   *)
(* nothing to replace.                                                     *)
(***************************************************************************)
NL == Ch("\n")

XSH == Ch("//#xsh")

\* \s
IsWhite(e) == e.c \in {" ", "\n"}

\* ^ under the flag m
LineStart(t, i) == i = 1 \/ t[i - 1] = NL

\* The first lexeme from i on that is no white space (Len(t) + 1 if none)
SkipWhite(t, i) == Min({j \in i..Len(t) : ~IsWhite(t[j])} \cup {Len(t) + 1})

\* The first line terminator from i on (Len(t) + 1 if none)
LineEnd(t, i) == Min({j \in i..Len(t) : t[j] = NL} \cup {Len(t) + 1})

\* ContentCommands.TPL_XSH_COMMAND tried at lexeme i:
\* (?<start>^\s*)\/\/#xsh\s+(?<command>.*?)(?<end>\n|$)
XshMatch(t, i) ==
    LET j == SkipWhite(t, i)
        k == SkipWhite(t, j + 1)
        e == LineEnd(t, k)
    IN  [ok      |-> LineStart(t, i) /\ j <= Len(t) /\ t[j] = XSH /\ k > j + 1,
         start   |-> SubSeq(t, i, j - 1),
         command |-> SubSeq(t, k, e - 1),
         end     |-> IF e <= Len(t) THEN <<NL>> ELSE <<>>,
         next    |-> IF e <= Len(t) THEN e + 1 ELSE e]

\* getRunnableConstName(name, true): "__XSH_SYSTEM_" + name.toUpperCase() + "__"
getRunnableConstName(name) == <<Ch("__XSH_SYSTEM_")>> \o toUpperCase(<<name>>) \o <<Ch("__")>>

\* A constant of the given prefix stands at lexeme i: __XSH_VAR_(?<name>\w+?)__,
\* __XSH_RUN_(?<name>\w+?)__ and __XSH_SYSTEM_(?<name>\w+?)__, for a name of one word
IsConst(t, i, prefix) == i + 2 <= Len(t) /\ t[i].c = prefix /\ t[i + 2].c = "__"

ConstPrefix(rule) == IF rule = "varConst" THEN "__XSH_VAR_" ELSE "__XSH_RUN_"

\* template.varConst and template.runConst, from lexeme i on: the scope keeps a
\* closure under the hash of the name, the constant becomes a system constant
RECURSIVE ConstPass(_, _, _, _)
ConstPass(rule, t, i, scope) ==
    LET Replaced(name, varName) ==
            LET rest == ConstPass(rule, t, i + 3, Put(scope, <<varName>>, Fn(rule, name, <<>>)))
            IN  [text |-> getRunnableConstName(varName) \o rest.text, scope |-> rest.scope]
        Kept(rest) == [text |-> <<t[i]>> \o rest.text, scope |-> rest.scope]
    IN  IF i > Len(t) THEN [text |-> <<>>, scope |-> scope]
        ELSE IF IsConst(t, i, ConstPrefix(rule))
        THEN Replaced(<<t[i + 1]>>, getVariableHash(<<t[i + 1]>>))
        ELSE Kept(ConstPass(rule, t, i + 1, scope))

\* template.command of ext-js, from lexeme i on: the scope keeps a closure under
\* the hash of the command, the whole match becomes a system constant
RECURSIVE XshPass(_, _, _)
XshPass(t, i, scope) ==
    LET Replaced(m, command, varName) ==
            LET rest == XshPass(t, m.next, Put(scope, <<varName>>, Fn("command", command, m.end)))
            IN  [text |-> getRunnableConstName(varName) \o rest.text, scope |-> rest.scope]
        Matched(m) == Replaced(m, stripSlashes(m.command), getVariableHash(stripSlashes(m.command)))
        Kept(rest) == [text |-> <<t[i]>> \o rest.text, scope |-> rest.scope]
    IN  IF i > Len(t) THEN [text |-> <<>>, scope |-> scope]
        ELSE IF XshMatch(t, i).ok THEN Matched(XshMatch(t, i))
        ELSE Kept(XshPass(t, i + 1, scope))

\* String(value), as String.prototype.replace spells what a callback returns
StringOf(x) ==
    CASE x.t = "undef" -> Str(<<"undefined">>)
      [] x.t = "null"  -> Str(<<"null">>)
      [] x.t = "arr"   -> Join(x.v, Str(<<",">>))
      [] x.t = "obj"   -> Str(<<"[object Object]">>)
      [] OTHER         -> ToText(x)

\* template.systemConst, from lexeme i on: each system constant becomes what
\* parse("$$" + name, scope, async) returns, from left to right; r holds the
\* scope and the store so far
RECURSIVE SystemConstPass(_, _, _)
SystemConstPass(t, i, st) ==
    LET Replaced(s1) ==
            LET rest == SystemConstPass(t, i + 3, s1)
            IN  [text |-> StringOf(s1.val) \o rest.text, st |-> rest.st]
        Kept(rest) == [text |-> <<t[i]>> \o rest.text, st |-> rest.st]
    IN  IF i > Len(t) \/ st.err # "" THEN [text |-> <<>>, st |-> st]
        ELSE IF IsConst(t, i, "__XSH_SYSTEM_")
        THEN Replaced(Call("exec", <<getRunnableVariableName(ConstVariable(<<t[i + 1]>>)[1]),
                                     [st EXCEPT !.scope = Put(st.scope, CONTEXT, Null)], TRUE>>))
        ELSE Kept(SystemConstPass(t, i + 1, st))

\* One rule of the category "template" applied to the text; r holds the text,
\* the scope, the store and the error thrown
ApplyTemplateRule(rule, r) ==
    LET Scoped(p) == [r EXCEPT !.text = p.text, !.st.scope = p.scope]
        Ran(p)    == [text |-> p.text, st |-> p.st]
    IN  CASE rule.name \in {"varConst", "runConst"} ->
               Scoped(ConstPass(rule.name, r.text, 1, r.st.scope))
          [] rule.name = "command"     -> Scoped(XshPass(r.text, 1, r.st.scope))
          [] rule.name = "systemConst" -> Ran(SystemConstPass(r.text, 1, r.st))
          [] OTHER                     -> r

\* replacer(getRulesByType("template", "js"), template, {scope, type, async})
RECURSIVE TemplateLoop(_, _)
TemplateLoop(rules, r) ==
    IF rules = <<>> \/ r.st.err # "" THEN r
    ELSE TemplateLoop(Tail(rules), ApplyTemplateRule(rules[1], r))

\* parseTemplate(template, "js", scope)
parseTemplate(template, scope, store) ==
    LET r == TemplateLoop(TEMPLATE, [text |-> template, st |-> NewState(scope, store)])
    IN  [r.st EXCEPT !.val = StrV(r.text), !.log = <<>>]

\* The greatest number of lines of a template
MaxLines == 3

\* The lines: a word, nothing, an indented directive whose command returns a
\* number, a directive whose command returns null, and the constants of the
\* variable x
TemplateLines ==
    { <<Ch("a")>>, <<>>,
      Sp \o <<XSH>> \o Sp \o Str(<<"1">>),
      <<XSH>> \o Sp \o Str(<<"null">>),
      Str(<<"__XSH_VAR_", "X", "__">>),
      Str(<<"__XSH_RUN_", "X", "__">>) }

\* The scopes of the callers: x is unset, or a string that is a command
TemplateScopes == { NoVars, Put(NoVars, NameX, StrV(Str(<<"1", "+", "1">>))) }

\* parseTemplate(template, "js", scope), sync: the lines are joined with "\n"
ParseTemplate ==
    /\ pc = "idle"
    /\ \E lines \in ListsUpTo(TemplateLines, MaxLines), scope \in TemplateScopes :
          /\ lines # <<>>
          /\ call' = [op |-> "parseTemplate", lines |-> lines,
                      template |-> JoinTexts(lines, <<NL>>), scope |-> scope, vars |-> VARS]
          /\ result' = parseTemplate(JoinTexts(lines, <<NL>>), scope, VARS)
          /\ VARS' = result'.vars
    /\ pc' = "done"
    /\ UNCHANGED <<engine, GLOBAL_RULES>>

NextTemplate == ParseTemplate \/ Finish

SpecTemplate == Init /\ [][NextTemplate]_vars

Templated == pc = "done" /\ call.op = "parseTemplate" /\ result.err = ""

\* The number of lines of a text
LineCount(t) == Cardinality({i \in 1..Len(t) : t[i] = NL}) + 1

IsDirective(line) == \E i \in 1..Len(line) : line[i] = XSH

\* The command of a directive line: what follows the marker and the space
DirectiveCommand(line) ==
    SubSeq(line, (CHOOSE i \in 1..Len(line) : line[i] = XSH) + 2, Len(line))

\* The command of the directive returns a number or a string
Printable(line) ==
    LET value == parse(DirectiveCommand(line), call.scope, Null, call.vars).val
    IN  isNumber(value) \/ isString(value)

\* The lines of white space only that stand directly before line k
BlanksBefore(lines, k) ==
    Cardinality({j \in 1..(k - 1) : \A m \in j..(k - 1) : \A i \in 1..Len(lines[m]) :
                                        IsWhite(lines[m][i])})

\* The last directive line with the command of line k
LastSame(lines, k) ==
    CHOOSE m \in k..Len(lines) :
       /\ IsDirective(lines[m])
       /\ DirectiveCommand(lines[m]) = DirectiveCommand(lines[k])
       /\ \A n \in (m + 1)..Len(lines) :
             ~(IsDirective(lines[n]) /\ DirectiveCommand(lines[n]) = DirectiveCommand(lines[k]))

\* The lines that the directive at line k takes away: the blank lines before it,
\* and itself unless it is the last line or it is put back as an evaluated line
LinesLost(lines, k) ==
    BlanksBefore(lines, k)
    + (IF k < Len(lines) THEN 1 ELSE 0)
    - (IF Printable(lines[k]) /\ LastSame(lines, k) < Len(lines) THEN 1 ELSE 0)

RECURSIVE LostUpTo(_, _)
LostUpTo(lines, k) ==
    IF k = 0 THEN 0
    ELSE LostUpTo(lines, k - 1) + (IF IsDirective(lines[k]) THEN LinesLost(lines, k) ELSE 0)

VarLine == Str(<<"__XSH_VAR_", "X", "__">>)

RunLine == Str(<<"__XSH_RUN_", "X", "__">>)

\* The value of the variable x for the caller of the template, plain and run
PlainValue == parse(getVariableName(Ch("x")), call.scope, Null, call.vars).val

RunValue == parse(getRunnableVariableName(Ch("x")), call.scope, Null, call.vars).val

\* C17: in a template without directives, a line __XSH_VAR_X__ becomes the plain
\* value of x and a line __XSH_RUN_X__ becomes the value of x run as a command,
\* whichever other constants the template holds.
C17_ConstantsIndependent ==
    (Templated /\ \A k \in 1..Len(call.lines) : ~IsDirective(call.lines[k]))
       => LET out == Split(result.val.v, <<NL>>)
          IN  /\ Len(out) = Len(call.lines)
              /\ \A k \in 1..Len(call.lines) :
                    /\ call.lines[k] = VarLine => out[k] = StringOf(PlainValue)
                    /\ call.lines[k] = RunLine => out[k] = StringOf(RunValue)

(***************************************************************************)
(* Math tokens: two operators between three operands, without spaces and   *)
(* without parentheses.                                                    *)
(***************************************************************************)
\* The operands, each of one lexeme
MathOperands == { Str(<<"2">>), Str(<<"3">>), Str(<<"true">>) }

\* The operators: the keys of the math rules
MathOperators == { MATH[i].key : i \in 1..Len(MATH) }

\* parse(a op1 b op2 c)
ParseMath ==
    /\ pc = "idle"
    /\ \E a \in MathOperands, b \in MathOperands, c \in MathOperands,
          op1 \in MathOperators, op2 \in MathOperators :
          /\ call' = [op |-> "parseMath", operands |-> <<a, b, c>>, operators |-> <<op1, op2>>,
                      command |-> a \o op1 \o b \o op2 \o c, vars |-> VARS]
          /\ result' = parse(a \o op1 \o b \o op2 \o c, NoVars, Null, VARS)
          /\ VARS' = result'.vars
    /\ pc' = "done"
    /\ UNCHANGED <<engine, GLOBAL_RULES>>

NextMath == ParseMath \/ Finish

SpecMath == Init /\ [][NextMath]_vars

\* The name of the math rule of a key
RuleOf(key) == MATH[CHOOSE i \in 1..Len(MATH) : MATH[i].key = key].name

\* The value of an operand
OperandOf(text) ==
    IF text = Str(<<"true">>) THEN Bool(TRUE) ELSE Num(parseInt(text))

\* The tiers of precedence, the lowest first:
\* === !==, == !=, >= <=, > <, + -, * / %
Tier(name) ==
    CASE name \in {"eqv", "neq"}        -> 1
      [] name \in {"eq", "ne"}          -> 2
      [] name \in {"ge", "le"}          -> 3
      [] name \in {"gt", "lt"}          -> 4
      [] name \in {"add", "sub"}        -> 5
      [] name \in {"mul", "div", "mod"} -> 6

\* An operator applied to two outcomes: the error of the left operand first
Applied(name, x, y) ==
    IF x.err # "" THEN x
    ELSE IF y.err # "" THEN y
    ELSE MathCallback(name, x.val, y.val)

Outcome(value) == [err |-> "", val |-> value]

\* a op1 b op2 c split at the operator of the lower tier; operators of one tier
\* are taken from left to right
ByTiers(a, n1, b, n2, c) ==
    IF Tier(n1) < Tier(n2)
    THEN Applied(n1, Outcome(a), Applied(n2, Outcome(b), Outcome(c)))
    ELSE Applied(n2, Applied(n1, Outcome(a), Outcome(b)), Outcome(c))

Computed == pc = "done" /\ call.op = "parseMath"

Expected ==
    ByTiers(OperandOf(call.operands[1]), RuleOf(call.operators[1]),
            OperandOf(call.operands[2]), RuleOf(call.operators[2]),
            OperandOf(call.operands[3]))

\* C18: a math token with operators of two tiers is split at the operator of
\* the lower tier, so that it evaluates as the tiers prescribe; for instance
\* 2<=3===true is (2<=3)===true.
C18_SplitAtLowestTier ==
    (Computed /\ Tier(RuleOf(call.operators[1])) # Tier(RuleOf(call.operators[2])))
       => IF Expected.err = "" THEN result.err = "" /\ result.val = Expected.val
          ELSE result.err # ""

Arithmetic == {"add", "sub", "mul", "div", "mod"}

\* C19: a token of integers over + - * / % evaluates to the result of
\* conventional arithmetic, with the operators of one tier taken from left to
\* right; for instance 2*3%2 is (2*3)%2 = 0.  Compared where both results are
\* integers.
C19_ConventionalArithmetic ==
    (/\ Computed
     /\ RuleOf(call.operators[1]) \in Arithmetic
     /\ RuleOf(call.operators[2]) \in Arithmetic
     /\ \A i \in 1..3 : OperandOf(call.operands[i]).t = "num"
     /\ Expected.err = ""
     /\ Expected.val.t = "num"
     /\ result.err = ""
     /\ result.val.t = "num")
       => result.val = Expected.val

\* A sibling that is a pipe chain: "(n | $context)"
PipeChain(n) == Str(<<"(", n, "|", "$", "context", ")">>)

IsPipeChain(e) == e \in { PipeChain("1"), PipeChain("2") }

\* What the second child of the chain reads when scope.context is the result of
\* its left neighbour
ChainValue(e) == IF e = PipeChain("1") THEN Num(1) ELSE Num(2)

\* C20: in async mode, when the siblings of an array literal or of an argument
\* list are pipe chains, the second child of every chain reads the result of
\* its own left neighbour as scope.context, and when the call has settled
\* scope.context is what it was before the chains started.
C20_ChainsKeepTheirContext ==
    (/\ pc = "done"
     /\ call.op = "parseAsync"
     /\ call.shape = "array"
     /\ \A i \in 1..Len(call.parts) : IsPipeChain(call.parts[i]))
       => /\ result.err = ""
          /\ result.val = Arr([i \in 1..Len(call.parts) |-> ChainValue(call.parts[i])])
          /\ Get(result.scope, CONTEXT) = call.context

(***************************************************************************)
(* Properties of the pipe                                                  *)
(***************************************************************************)
\* What "$context" returns in the scope of the call when scope.context is c
ReadsContext(c) == parse(Str(<<"$", "context">>), call.scope, c, call.vars).val

\* The result of the left neighbour of the last child of the chain at hand
LeftResult == PartOutcome(Len(call.parts)).val

\* C21: in a "|" chain the child "$context" is evaluated with scope.context
\* equal to the result of the child immediately to its left, whatever that
\* result is (undefined included, and in a chain nested in another): it returns
\* what "$context" reads when scope.context is that result.
C21_ChildReadsLeftNeighbour ==
    Parsed({"x | $context", "x | (y | $context)"}) =>
        /\ result.err = ""
        /\ result.val = ReadsContext(LeftResult)

(***************************************************************************)
(* Properties of the normalizer                                            *)
(***************************************************************************)
\* What parseCommand makes of the command of the call at hand
ParsedCommand == parseCommand(call.command, Put(call.scope, CONTEXT, call.context), 0)

\* The leaf strings of a subcommand tree
RECURSIVE LeavesOf(_)
LeavesOf(tree) ==
    IF tree.k = "leaf" THEN {tree.text}
    ELSE UNION { LeavesOf(tree.kids[i]) : i \in 1..Len(tree.kids) }

\* A text holds a group "(...)", "[...]" or "{...}"
HasGroup(t) ==
    \E n \in 1..Len(BraceKinds) : \E k \in 1..Len(t) :
        GroupEnd(t, k, BraceKinds[n][1], BraceKinds[n][2]) # 0

\* Every "$$" placeholder of a group in the text has its scope entry, which
\* holds the substring it replaced
GroupsStored(t, scope) ==
    \A k \in 1..Len(t) :
        (t[k].c = "_md5" /\ t[k].h # <<>> /\ t[k].h[1].c \in {"(", "[", "{"})
            => Get(scope, <<t[k]>>) = StrV(t[k].h)

\* C22: for input of any depth of nested braces, no leaf string that
\* parseCommand hands to the converter holds a group: every group has become a
\* "$$" placeholder whose scope entry holds the original substring.
C22_LeavesHoldNoGroup ==
    Parsed({"nest"}) =>
        \A leaf \in LeavesOf(ParsedCommand.tree) :
            /\ ~HasGroup(leaf)
            /\ GroupsStored(leaf, ParsedCommand.scope)

(***************************************************************************)
(* Properties of the mode descriptor and of the options                    *)
(***************************************************************************)
\* The mode descriptor of the command is the last declared one
ModeIsLast(command) ==
    /\ ARG_MODE \in DOMAIN command.namedArgs
    /\ command.namedArgs[ARG_MODE].ind = Len(command.args) - 1

\* C23: for a command whose mode descriptor is the last declared one, the
\* runs of flags of the input are consumed wherever they stand, and the
\* callback gets the bitwise OR of the weights of their letters as the mode.
C23_ModeLastTakesFlags ==
    (Called /\ ModeIsLast(call.command) /\ Runs(call.args) # {}) =>
        /\ result.invoked
        /\ result.rest = <<>>
        /\ result.cb[Len(call.command.args)] =
              Num(OrOfWeights(call.command.flags, LettersSeen(call.args)))

\* The places of the long options among the tokens
Longs(args) == {k \in 1..Len(args) : DoubleDashed(args[k])}

\* The long option that a token at place j follows most closely (0 if none)
NearestLong(args, j) ==
    LET before == {k \in Longs(args) : k < j}
    IN  IF before = {} THEN 0 ELSE CHOOSE k \in before : \A m \in before : m <= k

\* The descriptor that the long option at place k stands for
Named(command, args, k) == command.namedArgs[OptionName(args[k])]

\* An input of long options and their values only: it starts with a long
\* option, holds no run of flags, and every plain token directly follows a
\* long option or belongs to the tail of a variadic one
OptionsOnly(command, args) ==
    /\ Len(args) >= 1
    /\ DoubleDashed(args[1])
    /\ \A j \in 1..Len(args) : Plain(args[j]) \/ DoubleDashed(args[j])
    /\ \A j \in 1..Len(args) :
          (Plain(args[j]) /\ Known(command, args[NearestLong(args, j)])) =>
              \/ NearestLong(args, j) = j - 1
              \/ Named(command, args, NearestLong(args, j)).variadic

\* The first long option of no descriptor (0 if every one is known)
FirstUnknown(command, args) ==
    LET unknown == {k \in Longs(args) : ~Known(command, args[k])}
    IN  IF unknown = {} THEN 0 ELSE CHOOSE k \in unknown : \A m \in unknown : k <= m

\* The plain tokens that follow the long option of a variadic descriptor
TailPlaces(command, args) ==
    {j \in 1..Len(args) :
        Plain(args[j]) /\ Named(command, args, NearestLong(args, j)).variadic}

RECURSIVE TailFrom(_, _, _)
TailFrom(command, args, j) ==
    IF j > Len(args) THEN <<>>
    ELSE (IF j \in TailPlaces(command, args) THEN <<args[j]>> ELSE <<>>)
            \o TailFrom(command, args, j + 1)

\* Every required descriptor has its value from its long option
RequiredGiven(command, args) ==
    \A i \in Required(command) :
        IF command.args[i].variadic THEN TailPlaces(command, args) # {}
        ELSE GivenByName(command, args, i)

\* The last long option of its name
LastOfName(args, k) ==
    \A m \in Longs(args) : OptionName(args[m]) = OptionName(args[k]) => m <= k

\* The argument the callback got at a 0-based index
CallbackArg(ind) == IF ind + 1 \in DOMAIN result.cb THEN result.cb[ind + 1] ELSE Undef

\* C24: a long option of no descriptor makes execFn fail with
\* PropertyNotFound; a long option binds the plain token after it as the value
\* of its descriptor, and true when another long option or the end of the
\* input follows; the plain tokens after the long option of a variadic
\* descriptor go to the variadic tail in order, and the long option after
\* them binds as any other.
C24_LongOptionsBind ==
    (Called /\ OptionsOnly(call.command, call.args)) =>
        IF FirstUnknown(call.command, call.args) # 0
        THEN result.err = "PropertyNotFound"
        ELSE RequiredGiven(call.command, call.args) =>
               /\ result.invoked
               /\ result.rest = <<>>
               /\ result.last = TailFrom(call.command, call.args, 1)
               /\ \A k \in Longs(call.args) :
                     (LastOfName(call.args, k) /\ ~Named(call.command, call.args, k).variadic) =>
                        IF k = Len(call.args) \/ DoubleDashed(call.args[k + 1])
                        THEN CallbackArg(Named(call.command, call.args, k).ind) = Bool(TRUE)
                        ELSE IsNullish(call.args[k + 1])
                             \/ CallbackArg(Named(call.command, call.args, k).ind)
                                   = call.args[k + 1]

\* A quoted literal, and its body
IsQuoted(e) == Len(e) >= 2 /\ e[1].c = "\"" /\ e[Len(e)].c = "\""

Body(e) == SubSeq(e, 2, Len(e) - 1)

\* C25: the keys of the placeholders never alias two different extracted
\* values: in one command a quoted literal, a signed number and a brace group
\* that differ in kind or value keep their own values, so the placeholder of
\* a quoted literal reads back the de-quoted string.
C25_QuotedReadsBack ==
    Parsed({"[a,b]"}) =>
        /\ result.err = ""
        /\ isArray(result.val)
        /\ Len(result.val.v) = 2
        /\ \A i \in 1..2 :
              IF IsQuoted(call.parts[i])
              THEN result.val.v[i] = StrV(Body(call.parts[i]))
              ELSE result.val.v[i] = PartOutcome(i).val

\* C26: after a "|" chain has finished, by returning a value or because one
\* of its children raised an error, scope.context is what it was before the
\* chain started.
C26_ContextRestored ==
    Parsed({"x | $context", "x | (y | $context)", "x | min"}) =>
        Get(result.scope, CONTEXT) = call.context

\* The directive line whose command returns the number 1, and the word line
OneLine == Sp \o <<XSH>> \o Sp \o Str(<<"1">>)

WordLine == <<Ch("a")>>

\* The line that a directive of the command 1 expands to
Expanded(line) == IF line = OneLine THEN Str(<<"1">>) ELSE line

\* The lines from k on, each directive expanded, each with its own terminator
RECURSIVE ExpandedFrom(_, _)
ExpandedFrom(lines, k) ==
    IF k > Len(lines) THEN <<>>
    ELSE Expanded(lines[k]) \o (IF k < Len(lines) THEN <<NL>> ELSE <<>>)
            \o ExpandedFrom(lines, k + 1)

\* C27: each directive of a JS template is expanded with the data captured
\* at its own occurrence, even when another directive of the template has the
\* same command text: in a template of words and of directives "//#xsh 1",
\* every directive becomes 1 followed by its own line terminator.
C27_OwnTerminator ==
    (/\ pc = "done"
     /\ call.op = "parseTemplate"
     /\ \A k \in 1..Len(call.lines) : call.lines[k] \in {OneLine, WordLine}) =>
        /\ result.err = ""
        /\ result.val = StrV(ExpandedFrom(call.lines, 1))

\* C28: an argument that comes from a quoted literal or from a variable is
\* bound by execFn as a plain value, whatever characters it starts with:
\* concat " " v returns the value of v as a string, v being the one element of
\* the variadic tail.
C28_GivenValuesArePlain ==
    Parsed({"concat d v"}) =>
        /\ result.err = ""
        /\ result.val = StrV(ToText(PartOutcome(1).val))

(***************************************************************************)
(* Force-evaluation.  The value of "$$name" that is a string is executed   *)
(* as a command in the same scope; when that string is a "$$" reference    *)
(* too, exec is entered again from inside the call.  frames holds the      *)
(* commands of the calls of exec that have not returned yet.               *)
(***************************************************************************)
\* The greatest number of calls of exec that the stack of the host holds
MaxStack == 4

\* The error kinds of the engine
ErrorKinds ==
    { "PropertyNotFound", "PropertyTypeMismatch", "ParameterTypeInvalid",
      "VariableTypeInvalid", "PropertyRequired", "AssertFailed", "MathResultInvalid",
      "ArgumentsLengthInvalid", "WrongArgumentPosition" }

\* The strings stored in the variables x and y
ForcedTexts == { Str(<<"1">>), Str(<<"$", "$", "x">>), Str(<<"$", "$", "y">>) }

\* The commands of the callers
ForceCommands == { Str(<<"$", "$", "x">>), Str(<<"$", "$", "y">>) }

\* "v" >> name: the string is stored in the global store
StoreString ==
    /\ pc = "idle"
    /\ \E name \in {NameX, NameY}, value \in ForcedTexts :
          /\ call' = [op |-> "setVar", name |-> StrV(name), value |-> StrV(value),
                      vars |-> VARS]
          /\ result' = setVar(StrV(name), StrV(value), VARS)
          /\ VARS' = result'.vars
    /\ pc' = "done"
    /\ UNCHANGED <<engine, GLOBAL_RULES>>

\* parse(command), sync: the first call of exec
Force ==
    /\ pc = "idle"
    /\ \E command \in ForceCommands :
          /\ call' = [op |-> "force", command |-> command, vars |-> VARS]
          /\ frames' = <<command>>
    /\ pc' = "forcing"
    /\ UNCHANGED <<VARS, result, callScope, promises, microtasks, GLOBAL_RULES>>

\* The value of the variable that the command on top of the stack names
Forced(command) == getVar(StrV(StripVarPrefix(command)), NoVars, VARS, Undef).val

\* The value is a string that is a "$$" reference itself
ForcesAgain(value) == isString(value) /\ isRunnableVariable(RunText(value))

\* convert.isVariable for the command on top of the stack: checkValue calls
\* exec on a value that is a "$$" reference, and the host raises RangeError
\* when its stack is full; any other value ends the evaluation, and every call
\* of exec returns what the innermost one returns
ForceStep ==
    /\ pc = "forcing"
    /\ LET command == frames[Len(frames)]
       IN  IF ForcesAgain(Forced(command))
           THEN IF Len(frames) < MaxStack
                THEN /\ frames' = Append(frames, RunText(Forced(command)))
                     /\ UNCHANGED <<pc, result>>
                ELSE /\ frames' = <<>>
                     /\ pc' = "done"
                     /\ result' = Throw(NoResult, "RangeError")
           ELSE /\ frames' = <<>>
                /\ pc' = "done"
                /\ result' = parse(command, NoVars, Null, VARS)
    /\ UNCHANGED <<VARS, call, callScope, promises, microtasks, GLOBAL_RULES>>

NextForce == StoreString \/ Force \/ ForceStep \/ Finish

SpecForce == Init /\ [][NextForce]_vars

\* C29: every synchronous parse of a finite input returns a value or raises
\* one of the error kinds of the engine, the force-evaluation "$$name" of a
\* variable whose string holds "$$" references to itself or to other variables
\* included.
C29_ForceEnds ==
    (pc = "done" /\ call.op = "force") => result.err \in ErrorKinds \cup {""}

\* No descriptor of the command is variadic
NoVariadic(command) == \A i \in 1..Len(command.args) : ~command.args[i].variadic

\* More plain tokens than descriptors that take one, none of the bound ones
\* null, and no option among them
ExtraPlain(command, args) ==
    /\ Len(command.args) > 0
    /\ NoVariadic(command)
    /\ AllPlain(args)
    /\ Len(args) > Cardinality(Positional(command))
    /\ \A j \in 1..Cardinality(Positional(command)) : ~IsNullish(args[j])

\* C30: for a command with descriptors, none of them variadic, the plain
\* tokens beyond the last positional descriptor are discarded: no error is
\* raised, the callback gets one argument per declared descriptor, the
\* positional ones bound to the first tokens; and ArgumentsLengthInvalid is
\* raised only for a command without descriptors that is given tokens.
C30_ExtraPlainDiscarded ==
    Called =>
        /\ result.err = "ArgumentsLengthInvalid" =>
              (Len(call.command.args) = 0 /\ call.args # <<>>)
        /\ ExtraPlain(call.command, call.args) =>
              /\ result.invoked
              /\ Len(result.cb) = Len(call.command.args)
              /\ result.last = <<>>
              /\ result.rest = SubSeq(call.args, Cardinality(Positional(call.command)) + 1,
                                      Len(call.args))
              /\ \A j \in 1..Cardinality(Positional(call.command)) :
                    result.cb[PositionalAt(call.command, j)] = call.args[j]

\* C30: a command of two descriptors was given three plain tokens and its
\* callback was invoked with two arguments
C30_Witness ==
    /\ Called
    /\ ExtraPlain(call.command, call.args)
    /\ Len(call.command.args) = 2
    /\ Len(call.args) = 3
    /\ result.invoked
    /\ Len(result.cb) = 2
    /\ Len(result.rest) = 1

=============================================================================
